---- MODULE Spec2Model ----
(***************************************************************************)
(* Quota enforcement, subscription ledger, usage metering and billing of   *)
(* the URL shortener, modelled from the controllers and the SQL schema.    *)
(* Every awaited database call of a handler is one atomic step; a handler  *)
(* runs in a process p, and several processes interleave freely, as the    *)
(* requests of the Express server do.                                      *)
(***************************************************************************)
EXTENDS Integers, Sequences, FiniteSets, TLC

VARIABLES
    users,      \* table users: id -> row, or NoUser
    subs,       \* table user_subscriptions: sequence of rows, id = index
    invoices,   \* table enterprise_invoices: sequence of rows, id = index
    usage,      \* table usage_tracking: sequence of rows, id = index
    urls,       \* table urls: set of rows, each with its own id
    nextUrlId,  \* next primary key of table urls
    now,        \* the wall clock, in calendar months
    pc,         \* per process: the handler step it is at
    loc,        \* per process: the handler's local variables
    resp,       \* per process: the last response sent
    issued,     \* per user: the metering calls that have been made
    hist        \* per anonymous IP: the outcomes of its creation requests, in order

vars == <<users, subs, invoices, usage, urls, nextUrlId, now, pc, loc, resp, issued, hist>>

(***************************************************************************)
(* Bounds of the model.                                                    *)
(***************************************************************************)
MaxSubs == 4
MaxSubsConc == 3
Procs == {"p1", "p2"}
SeqProcs == {"p1"}
UserIds == {"u1", "u2"}
Ips == {"ip1"}
Codes == {"c1", "c2", "c3"}
\* the custom aliases that requests ask for
Aliases == {"c1"}
MaxUrls == 3
MaxReqs == 4
MaxReqsConc == 3
\* the identities that send creation requests
Clients == {"ip1", "u1", "u2"}
ClientsConc == {"ip1", "u2"}
\* the ids the database hands to register and to registerEnterprise
IndividualIds == {"u1"}
EnterpriseIds == {"u2"}

(***************************************************************************)
(* Values.                                                                 *)
(***************************************************************************)
NULL == 0
NoUser == [user_type |-> "none", account_status |-> "none"]
NoLoc == [op |-> "none", user |-> "none"]
NoQuota == [used |-> NULL, limit |-> NULL, remaining |-> NULL]
Features == {"chatbot", "screenshot"}
NoFeatures == [f \in Features |-> 0]
\* amounts of a bill, in cents
NoBill == [total |-> 0, urls |-> 0, files |-> 0, storage |-> 0, features |-> NoFeatures]

\* a response: the handler, the user it acted for, the HTTP status, and what the
\* handler knew when it answered
Response(op, u, code) ==
    [op |-> op, user |-> u, code |-> code, plan |-> "none", cur |-> NULL,
     wfail |-> FALSE, pend |-> {}, error |-> "none", quota |-> NoQuota,
     bill |-> NoBill]
NoResp == Response("none", "none", 0)

\* database/schema.sql, the default plans; url_limit NULL means unlimited
PlanNames == {"free", "lite", "enterprise"}
Unlimited == -1
UrlLimitOf(plan) ==
    CASE plan = "free" -> 2
      [] plan = "lite" -> 10
      [] plan = "enterprise" -> Unlimited

(***************************************************************************)
(* Table user_subscriptions.                                               *)
(***************************************************************************)
\* UNIQUE(user_id, plan_id, status)
SubsUnique(rows) ==
    \A i, j \in DOMAIN rows :
        (i # j) =>
            ~ (/\ rows[i].user = rows[j].user
               /\ rows[i].plan = rows[j].plan
               /\ rows[i].status = rows[j].status)

\* .eq('user_id', u).eq('status', 'active')
ActiveSubs(u) == {i \in DOMAIN subs : subs[i].user = u /\ subs[i].status = "active"}

PendingSubs(u) ==
    {i \in DOMAIN subs : subs[i].user = u /\ subs[i].status = "pending_payment"}

\* PostgREST .single(): the row when exactly one matches, otherwise an error
\* and data = null
Single(S) == IF Cardinality(S) = 1 THEN CHOOSE x \in S : TRUE ELSE NULL

NewSubPending(u, plan, status, started) ==
    [user |-> u, plan |-> plan, status |-> "pending_payment",
     started_at |-> started, cancelled_at |-> NULL]

NewSub(u, plan, status, started) ==
    [user |-> u, plan |-> plan, status |-> status,
     started_at |-> started, cancelled_at |-> NULL]

\* the rows after .insert([row]): unchanged when the constraint rejects it
SubsInsertOk(row) == SubsUnique(Append(subs, row))

SubsInsert(row) == IF SubsInsertOk(row) THEN Append(subs, row) ELSE subs

SubsExpired(id) ==
    [subs EXCEPT ![id].status = "expired", ![id].cancelled_at = now]

\* the rows after .update({status: 'cancelled', cancelled_at}).eq('id', id)
SubsCancelled(id) ==
    [subs EXCEPT ![id].status = "cancelled", ![id].cancelled_at = now]

SubsCancelOk(id) == SubsUnique(SubsCancelled(id))

SubsCancel(id) == IF SubsCancelOk(id) THEN SubsCancelled(id) ELSE subs

\* the rows after .update({status: 'active', started_at})
\*   .eq('user_id', u).eq('status', 'pending_payment')
SubsActivate(u) ==
    LET upd == [i \in DOMAIN subs |->
                   IF i \in PendingSubs(u)
                   THEN [subs[i] EXCEPT !.status = "active", !.started_at = now]
                   ELSE subs[i]]
    IN  IF SubsUnique(upd) THEN upd ELSE subs

\* handlers in flight that may still insert a subscription row
Inserters ==
    {p \in Procs : pc[p] \in {"pp_insert", "sw_update", "sw_insert",
                                "rg_sub", "re_invoice", "re_sub"}}

RoomForSub(max) == Len(subs) + Cardinality(Inserters) < max

\* register and registerEnterprise hand the user id (the bearer token) out in
\* their response: before that no client knows it
Registering(u) ==
    \E p \in Procs : pc[p] \in {"rg_sub", "re_invoice", "re_sub"} /\ loc[p].user = u

\* identifyUser: the bearer token is the id of a row of users
Authenticated(u) == users[u] # NoUser /\ ~ Registering(u)

(***************************************************************************)
(* Table enterprise_invoices.  Amounts are in cents.                       *)
(***************************************************************************)
RegistrationFeeCents == 1000

RegistrationInvoice(u) ==
    [user |-> u, type |-> "registration_fee", period_start |-> NULL,
     amount |-> RegistrationFeeCents, status |-> "pending",
     payment_date |-> NULL, payment_reference |-> NULL, usage_details |-> NoBill]

\* .update({status: 'paid', payment_date, payment_reference})
\*   .eq('user_id', u).eq('invoice_type', 'registration_fee').eq('status', 'pending')
InvoicesPayRegistration(u) ==
    [i \in DOMAIN invoices |->
        IF /\ invoices[i].user = u
           /\ invoices[i].type = "registration_fee"
           /\ invoices[i].status = "pending"
        THEN [invoices[i] EXCEPT !.status = "paid", !.payment_date = now,
                                 !.payment_reference = 1]
        ELSE invoices[i]]

(***************************************************************************)
(* Table usage_tracking.                                                   *)
(***************************************************************************)

\* new Date(); setDate(1); setHours(0, 0, 0, 0): the first instant of the month
CurrentMonth == now

NewUsage(u, period, nUrls, nFiles, bytes, feats) ==
    [user |-> u, period |-> period, urls_created |-> nUrls,
     files_uploaded |-> nFiles, storage |-> bytes, features |-> feats]

\* UNIQUE(user_id, tracking_period)
UsageUnique(rows) ==
    \A i, j \in DOMAIN rows :
        (i # j) => ~ (rows[i].user = rows[j].user /\ rows[i].period = rows[j].period)

UsageInsertUnchecked(row) == Append(usage, row)

UsageInsert(row) ==
    IF UsageUnique(Append(usage, row)) THEN Append(usage, row) ELSE usage

(***************************************************************************)
(* Initial state: an empty database, no request in flight.                 *)
(***************************************************************************)
Init ==
    /\ users = [u \in UserIds |-> NoUser]
    /\ subs = << >>
    /\ invoices = << >>
    /\ usage = << >>
    /\ urls = {}
    /\ nextUrlId = 1
    /\ now = 1
    /\ pc = [p \in Procs |-> "idle"]
    /\ loc = [p \in Procs |-> NoLoc]
    /\ resp = [p \in Procs |-> NoResp]
    /\ issued = [u \in UserIds |-> [calls |-> 0, bytes |-> 0]]
    /\ hist = [ip \in Ips |-> << >>]

ReplyWith(p, r) ==
    /\ pc' = [pc EXCEPT ![p] = "idle"]
    /\ loc' = [loc EXCEPT ![p] = NoLoc]
    /\ resp' = [resp EXCEPT ![p] = r]

Reply(p, op, u, code) == ReplyWith(p, Response(op, u, code))

Goto(p, label, l) ==
    /\ pc' = [pc EXCEPT ![p] = label]
    /\ loc' = [loc EXCEPT ![p] = l]
    /\ resp' = [resp EXCEPT ![p] = NoResp]

(***************************************************************************)
(* register (authController).                                              *)
(***************************************************************************)
RegisterUser(p, u, max) ==
    /\ pc[p] = "idle"
    /\ users[u] = NoUser
    /\ RoomForSub(max)
    /\ users' = [users EXCEPT ![u] =
                    [user_type |-> "individual", account_status |-> "pending_payment"]]
    /\ Goto(p, "rg_sub", [op |-> "register", user |-> u])
    /\ UNCHANGED <<subs, invoices, usage, urls, nextUrlId, now, issued, hist>>

RegisterSub(p) ==
    /\ pc[p] = "rg_sub"
    /\ subs' = SubsInsert(NewSub(loc[p].user, "free", "active", NULL))
    /\ Reply(p, "register", loc[p].user, 201)
    /\ UNCHANGED <<users, invoices, usage, urls, nextUrlId, now, issued, hist>>

(***************************************************************************)
(* purchasePlan (subscriptionController).                                  *)
(***************************************************************************)
PurchaseCheck(p, u, plan, max) ==
    /\ pc[p] = "idle"
    /\ Authenticated(u)
    /\ RoomForSub(max)
    /\ IF Single(ActiveSubs(u)) # NULL
       THEN Reply(p, "purchasePlan", u, 409)
       ELSE Goto(p, "pp_insert", [op |-> "purchasePlan", user |-> u, plan |-> plan])
    /\ UNCHANGED <<users, subs, invoices, usage, urls, nextUrlId, now, issued, hist>>

PurchaseInsert(p) ==
    /\ pc[p] = "pp_insert"
    /\ LET row == NewSub(loc[p].user, loc[p].plan, "active", now)
       IN  /\ subs' = SubsInsert(row)
           /\ Reply(p, "purchasePlan", loc[p].user,
                    IF SubsInsertOk(row) THEN 201 ELSE 500)
    /\ UNCHANGED <<users, invoices, usage, urls, nextUrlId, now, issued, hist>>

(***************************************************************************)
(* switchPlan (subscriptionController).                                    *)
(***************************************************************************)
SwitchCheck(p, u, newPlan, max) ==
    /\ pc[p] = "idle"
    /\ Authenticated(u)
    /\ RoomForSub(max)
    /\ LET cur == Single(ActiveSubs(u))
       IN  IF cur = NULL
           THEN Reply(p, "switchPlan", u, 404)
           ELSE IF subs[cur].plan = newPlan
           THEN Reply(p, "switchPlan", u, 400)
           ELSE Goto(p, "sw_update",
                     [op |-> "switchPlan", user |-> u, plan |-> newPlan, cur |-> cur,
                      wfail |-> FALSE])
    /\ UNCHANGED <<users, subs, invoices, usage, urls, nextUrlId, now, issued, hist>>

\* the result of the update is not looked at
SwitchCancel(p) ==
    /\ pc[p] = "sw_update"
    /\ subs' = SubsCancel(loc[p].cur)
    /\ Goto(p, "sw_insert", [loc[p] EXCEPT !.wfail = ~ SubsCancelOk(loc[p].cur)])
    /\ UNCHANGED <<users, invoices, usage, urls, nextUrlId, now, issued, hist>>

SwitchInsert(p) ==
    /\ pc[p] = "sw_insert"
    /\ LET row == NewSub(loc[p].user, loc[p].plan, "active", now)
       IN  /\ subs' = SubsInsert(row)
           /\ ReplyWith(p, [Response("switchPlan", loc[p].user,
                                      IF SubsInsertOk(row) THEN 200 ELSE 500)
                             EXCEPT !.plan = loc[p].plan, !.cur = loc[p].cur,
                                    !.wfail = loc[p].wfail \/ ~ SubsInsertOk(row)])
    /\ UNCHANGED <<users, invoices, usage, urls, nextUrlId, now, issued, hist>>

(***************************************************************************)
(* cancelSubscription (subscriptionController).                            *)
(***************************************************************************)
CancelCheck(p, u) ==
    /\ pc[p] = "idle"
    /\ Authenticated(u)
    /\ LET cur == Single(ActiveSubs(u))
       IN  IF cur = NULL
           THEN Reply(p, "cancelSubscription", u, 404)
           ELSE IF subs[cur].plan # "enterprise"
           THEN Reply(p, "cancelSubscription", u, 403)
           ELSE Goto(p, "cs_update",
                     [op |-> "cancelSubscription", user |-> u, cur |-> cur])
    /\ UNCHANGED <<users, subs, invoices, usage, urls, nextUrlId, now, issued, hist>>

CancelUpdate(p) ==
    /\ pc[p] = "cs_update"
    /\ subs' = SubsCancel(loc[p].cur)
    /\ Reply(p, "cancelSubscription", loc[p].user,
             IF SubsCancelOk(loc[p].cur) THEN 200 ELSE 500)
    /\ UNCHANGED <<users, invoices, usage, urls, nextUrlId, now, issued, hist>>

(***************************************************************************)
(* registerEnterprise (authController).                                    *)
(***************************************************************************)
RegEntUser(p, u, max) ==
    /\ pc[p] = "idle"
    /\ users[u] = NoUser
    /\ RoomForSub(max)
    /\ users' = [users EXCEPT ![u] =
                    [user_type |-> "enterprise", account_status |-> "pending_payment"]]
    /\ Goto(p, "re_invoice", [op |-> "registerEnterprise", user |-> u])
    /\ UNCHANGED <<subs, invoices, usage, urls, nextUrlId, now, issued, hist>>

RegEntInvoice(p) ==
    /\ pc[p] = "re_invoice"
    /\ invoices' = Append(invoices, RegistrationInvoice(loc[p].user))
    /\ Goto(p, "re_sub", loc[p])
    /\ UNCHANGED <<users, subs, usage, urls, nextUrlId, now, issued, hist>>

RegEntSub(p) ==
    /\ pc[p] = "re_sub"
    /\ subs' = SubsInsert(NewSub(loc[p].user, "enterprise", "pending_payment", NULL))
    /\ Reply(p, "registerEnterprise", loc[p].user, 201)
    /\ UNCHANGED <<users, invoices, usage, urls, nextUrlId, now, issued, hist>>

(***************************************************************************)
(* activateEnterpriseAccount (authController).  The route takes no         *)
(* credential: userId comes from the request body.                         *)
(***************************************************************************)
ActCheck(p, u) ==
    /\ pc[p] = "idle"
    /\ ~ Registering(u)
    /\ IF users[u].user_type # "enterprise"
       THEN Reply(p, "activate", u, 404)
       ELSE IF users[u].account_status = "active"
       THEN Reply(p, "activate", u, 400)
       ELSE Goto(p, "ac_user", [op |-> "activate", user |-> u, pend |-> PendingSubs(u)])
    /\ UNCHANGED <<users, subs, invoices, usage, urls, nextUrlId, now, issued, hist>>

ActUser(p) ==
    /\ pc[p] = "ac_user"
    /\ users' = [users EXCEPT ![loc[p].user].account_status = "active"]
    /\ Goto(p, "ac_invoice", loc[p])
    /\ UNCHANGED <<subs, invoices, usage, urls, nextUrlId, now, issued, hist>>

ActInvoice(p) ==
    /\ pc[p] = "ac_invoice"
    /\ invoices' = InvoicesPayRegistration(loc[p].user)
    /\ Goto(p, "ac_sub", loc[p])
    /\ UNCHANGED <<users, subs, usage, urls, nextUrlId, now, issued, hist>>

\* subError is logged and the handler goes on
ActSub(p) ==
    /\ pc[p] = "ac_sub"
    /\ subs' = SubsActivate(loc[p].user)
    /\ Goto(p, "ac_usage", loc[p])
    /\ UNCHANGED <<users, invoices, usage, urls, nextUrlId, now, issued, hist>>

\* the result of the insert is not looked at
ActUsage(p) ==
    /\ pc[p] = "ac_usage"
    /\ usage' = UsageInsert(NewUsage(loc[p].user, CurrentMonth, 0, 0, 0, NoFeatures))
    /\ ReplyWith(p, [Response("activate", loc[p].user, 200) EXCEPT !.pend = loc[p].pend])
    /\ UNCHANGED <<users, subs, invoices, urls, nextUrlId, now, issued, hist>>

Step(p, max) ==
    \/ \E u \in IndividualIds : RegisterUser(p, u, max)
    \/ RegisterSub(p)
    \/ \E u \in UserIds, plan \in PlanNames : PurchaseCheck(p, u, plan, max)
    \/ PurchaseInsert(p)
    \/ \E u \in UserIds, plan \in PlanNames : SwitchCheck(p, u, plan, max)
    \/ SwitchCancel(p)
    \/ SwitchInsert(p)
    \/ \E u \in UserIds : CancelCheck(p, u)
    \/ CancelUpdate(p)
    \/ \E u \in EnterpriseIds : RegEntUser(p, u, max)
    \/ RegEntInvoice(p)
    \/ RegEntSub(p)
    \/ \E u \in UserIds : ActCheck(p, u)
    \/ ActUser(p)
    \/ ActInvoice(p)
    \/ ActSub(p)
    \/ ActUsage(p)

Next == \E p \in Procs : Step(p, MaxSubsConc)

Spec == Init /\ [][Next]_vars

NextSeq == \E p \in SeqProcs : Step(p, MaxSubs)

SpecSeq == Init /\ [][NextSeq]_vars

(***************************************************************************)
(* Table urls.                                                             *)
(***************************************************************************)
NoOwner == "null"
NoAlias == "none"
MaxMonth == 2
MaxInvoices == 2
MaxRebills == 3
\* the usage records that bills are drawn for
MaxBilledUrls == 1
MaxBilledFiles == 20
MaxStorageUnits == 2
MaxFeatureUses == 1
StorageUnitMiB == 256
\* fileSize limit of multer, and of the enterprise plan, in MiB
MaxFileMiB == 50
\* file sizes, in MiB (1048576 bytes)
FileSizes == {5}

IsUser(who) == who \in UserIds

NewUrlBothOwners(id, code, who, isAlias, type, size) ==
    [id |-> id, short_code |-> code,
     user_id |-> IF IsUser(who) THEN who ELSE NoOwner,
     ip_address |-> IF IsUser(who) THEN "ip1" ELSE who,
     custom_alias |-> isAlias, url_type |-> type, file_size |-> size, clicks |-> 0]

NewUrl(id, code, who, isAlias, type, size) ==
    [id |-> id, short_code |-> code,
     user_id |-> IF IsUser(who) THEN who ELSE NoOwner,
     ip_address |-> IF IsUser(who) THEN NoOwner ELSE who,
     custom_alias |-> isAlias, url_type |-> type, file_size |-> size, clicks |-> 0]

\* .from('urls').select('short_code').eq('short_code', code).single()
CodeExists(code) == \E r \in urls : r.short_code = code

UrlsInsertUnchecked(row) == TRUE

\* short_code TEXT UNIQUE NOT NULL
UrlsInsertOk(row) == ~ CodeExists(row.short_code)

UrlsInsert(row) == IF UrlsInsertOk(row) THEN urls \cup {row} ELSE urls

CountByUserUnfiltered(u) == Cardinality(urls)

\* .eq('user_id', user.id), count exact
CountByUser(u) == Cardinality({r \in urls : r.user_id = u})

\* .eq('ip_address', user.ip).is('user_id', null), count exact
CountByIp(ip) == Cardinality({r \in urls : r.ip_address = ip /\ r.user_id = NoOwner})

Owned(who) == IF IsUser(who) THEN CountByUser(who) ELSE CountByIp(who)

\* freePlan.url_limit || 2
FreeLimit ==
    IF UrlLimitOf("free") = NULL \/ UrlLimitOf("free") = Unlimited
    THEN 2 ELSE UrlLimitOf("free")

UrlQuotaDecisionOffByOne(limit, count) ==
    LET remaining == limit - count
    IN  IF remaining < 0
        THEN [allowed |-> FALSE, error |-> "quota_exceeded",
              usage |-> [used |-> count, limit |-> limit, remaining |-> 0]]
        ELSE [allowed |-> TRUE, error |-> "none",
              usage |-> [used |-> count, limit |-> limit, remaining |-> remaining]]

UrlQuotaDecisionStale(limit, count) ==
    LET remaining == limit - count
    IN  IF remaining <= 0
        THEN [allowed |-> FALSE, error |-> "quota_exceeded",
              usage |-> [used |-> 0, limit |-> limit, remaining |-> 0]]
        ELSE [allowed |-> TRUE, error |-> "none",
              usage |-> [used |-> 0, limit |-> limit, remaining |-> limit]]

\* checkQuota of urlController, from the limit and the count it has read
UrlQuotaDecision(limit, count) ==
    LET remaining == limit - count
    IN  IF remaining <= 0
        THEN [allowed |-> FALSE, error |-> "quota_exceeded",
              usage |-> [used |-> count, limit |-> limit, remaining |-> 0]]
        ELSE [allowed |-> TRUE, error |-> "none",
              usage |-> [used |-> count, limit |-> limit, remaining |-> remaining]]

UploadQuotaDecisionOffByOne(limit, count) ==
    LET remaining == limit - count
    IN  IF remaining < 0
        THEN [allowed |-> FALSE, error |-> "quota_exceeded",
              usage |-> [used |-> count, limit |-> limit, remaining |-> 0]]
        ELSE [allowed |-> TRUE, error |-> "none",
              usage |-> [used |-> count, limit |-> limit, remaining |-> remaining]]

\* checkQuota of fileUploadController
UploadQuotaDecision(limit, count) ==
    LET remaining == limit - count
    IN  IF remaining <= 0
        THEN [allowed |-> FALSE, error |-> "quota_exceeded",
              usage |-> [used |-> count, limit |-> limit, remaining |-> 0]]
        ELSE [allowed |-> TRUE, error |-> "none",
              usage |-> [used |-> count, limit |-> limit, remaining |-> remaining]]

\* creation handlers in flight that may still insert a row of urls
Creators ==
    {p \in Procs : pc[p] \in {"sh_code", "sh_insert", "up_code", "up_insert"}}

RoomForUrl == (nextUrlId - 1) + Cardinality(Creators) < MaxUrls

\* creation requests of an anonymous IP, answered or in flight
Requests(who) ==
    Len(hist[who]) + Cardinality({p \in Procs : pc[p] # "idle" /\ loc[p].user = who})

MayRequest(who, max) == IF IsUser(who) THEN TRUE ELSE Requests(who) < max

Outcome(r) ==
    CASE r.code = 201 -> "created"
      [] r.code = 403 -> r.error
      [] r.code = 409 -> "alias_taken"
      [] OTHER -> "failed"

\* the response of a creation handler; those of anonymous IPs are logged
CreateReply(p, r) ==
    /\ ReplyWith(p, r)
    /\ hist' = IF IsUser(r.user) THEN hist
               ELSE [hist EXCEPT ![r.user] = Append(@, Outcome(r))]

Denied(op, who, decision) ==
    [Response(op, who, 403) EXCEPT !.error = decision.error, !.quota = decision.usage]

(***************************************************************************)
(* trackUrlCreation, trackFileUpload (billingController): read the row of  *)
(* the current month, then update it or insert a new one.                  *)
(***************************************************************************)
\* .eq('user_id', u).eq('tracking_period', period).single()
UsageRow(u, period) ==
    Single({i \in DOMAIN usage : usage[i].user = u /\ usage[i].period = period})

\* the handler goes on after a metering call: to the insert of the metadata
\* if the request has any, to its answer if not
Continue(p) ==
    IF loc[p].metadata.given
    THEN Goto(p, "sh_meta", loc[p]) /\ hist' = hist
    ELSE CreateReply(p, [Response(loc[p].op, loc[p].user, 201) EXCEPT !.quota = loc[p].quota])

TrackUrlRead(p) ==
    /\ pc[p] = "tu_read"
    /\ LET id == UsageRow(loc[p].user, CurrentMonth)
       IN  Goto(p, "tu_write",
                [loc[p] EXCEPT !.period = CurrentMonth, !.existing = id,
                               !.seen = IF id = NULL THEN 0 ELSE usage[id].urls_created])
    /\ issued' = [issued EXCEPT ![loc[p].user].calls = @ + 1]
    /\ UNCHANGED <<users, subs, invoices, usage, urls, nextUrlId, now, hist>>

TrackUrlWrite(p) ==
    /\ pc[p] = "tu_write"
    /\ usage' = IF loc[p].existing # NULL
                THEN [usage EXCEPT ![loc[p].existing].urls_created = loc[p].seen + 1]
                ELSE UsageInsert(NewUsage(loc[p].user, loc[p].period, 1, 0, 0, NoFeatures))
    /\ Continue(p)
    /\ UNCHANGED <<users, subs, invoices, urls, nextUrlId, now, issued>>

TrackFileRead(p) ==
    /\ pc[p] = "tf_read"
    /\ LET id == UsageRow(loc[p].user, CurrentMonth)
       IN  Goto(p, "tf_write",
                [loc[p] EXCEPT !.period = CurrentMonth, !.existing = id,
                               !.seen = IF id = NULL THEN 0 ELSE usage[id].files_uploaded,
                               !.seenBytes = IF id = NULL THEN 0 ELSE usage[id].storage])
    /\ issued' = [issued EXCEPT ![loc[p].user].calls = @ + 1,
                                ![loc[p].user].bytes = @ + loc[p].size]
    /\ UNCHANGED <<users, subs, invoices, usage, urls, nextUrlId, now, hist>>

TrackFileWrite(p) ==
    /\ pc[p] = "tf_write"
    /\ usage' = IF loc[p].existing # NULL
                THEN [usage EXCEPT ![loc[p].existing].files_uploaded = loc[p].seen + 1,
                                   ![loc[p].existing].storage = loc[p].seenBytes + loc[p].size]
                ELSE UsageInsert(NewUsage(loc[p].user, loc[p].period, 0, 1, loc[p].size,
                                          NoFeatures))
    /\ Continue(p)
    /\ UNCHANGED <<users, subs, invoices, urls, nextUrlId, now, issued>>

(***************************************************************************)
(* shortenUrl (urlController).                                             *)
(***************************************************************************)
\* the metadata of a request body: whether it has any, and its fields that
\* are true
NoMetadata == [given |-> FALSE, on |-> {}]

CreateLoc(op, who, alias, size) ==
    [op |-> op, user |-> who, alias |-> alias, size |-> size, code |-> NoAlias,
     limit |-> NULL, quota |-> NoQuota, period |-> NULL, existing |-> NULL,
     seen |-> 0, seenBytes |-> 0, metadata |-> NoMetadata, todo |-> << >>]

\* validateMetadata: the boolean fields it knows are copied, the others dropped
booleanFields == {"isChatbotEnable", "isScreenShotEnable"}

validateMetadata(metadata) == [metadata EXCEPT !.on = @ \cap booleanFields]

\* checkQuota up to its first read: the free plan, or the user's subscription;
\* metadata is the validated metadata of the request
ShortenRequest(p, who, alias, metadata, max) ==
    /\ pc[p] = "idle"
    /\ IsUser(who) => Authenticated(who)
    /\ MayRequest(who, max)
    /\ LET l == [CreateLoc("shortenUrl", who, alias, 0) EXCEPT
                    !.metadata = validateMetadata(metadata)]
           sub == Single(ActiveSubs(who))
       IN  IF ~ IsUser(who)
           THEN Goto(p, "sh_count", [l EXCEPT !.limit = FreeLimit]) /\ hist' = hist
           ELSE IF sub = NULL
           THEN CreateReply(p, [Response("shortenUrl", who, 403)
                                  EXCEPT !.error = "no_active_plan"])
           ELSE /\ hist' = hist
                /\ IF UrlLimitOf(subs[sub].plan) = Unlimited
                   THEN RoomForUrl /\ Goto(p, "sh_code", l)
                   ELSE Goto(p, "sh_count", [l EXCEPT !.limit = UrlLimitOf(subs[sub].plan)])
    /\ UNCHANGED <<users, subs, invoices, usage, urls, nextUrlId, now, issued>>

\* a request without metadata
ShortenCheck(p, who, alias, max) == ShortenRequest(p, who, alias, NoMetadata, max)

\* checkQuota from its count of the identity's urls to its answer
ShortenCount(p) ==
    /\ pc[p] = "sh_count"
    /\ LET d == UrlQuotaDecision(loc[p].limit, Owned(loc[p].user))
       IN  IF d.allowed
           THEN /\ RoomForUrl
                /\ Goto(p, "sh_code", [loc[p] EXCEPT !.quota = d.usage])
                /\ hist' = hist
           ELSE CreateReply(p, Denied("shortenUrl", loc[p].user, d))
    /\ UNCHANGED <<users, subs, invoices, usage, urls, nextUrlId, now, issued>>

\* a custom alias: taken, or it becomes the short code
ShortenAlias(p) ==
    /\ pc[p] = "sh_code"
    /\ loc[p].alias # NoAlias
    /\ IF CodeExists(loc[p].alias)
       THEN CreateReply(p, Response("shortenUrl", loc[p].user, 409))
       ELSE /\ Goto(p, "sh_insert", [loc[p] EXCEPT !.code = loc[p].alias])
            /\ hist' = hist
    /\ UNCHANGED <<users, subs, invoices, usage, urls, nextUrlId, now, issued>>

\* one turn of the loop: nanoid(6) draws c; the loop ends when c is free
ShortenGen(p, c) ==
    /\ pc[p] = "sh_code"
    /\ loc[p].alias = NoAlias
    /\ IF CodeExists(c)
       THEN Goto(p, "sh_code", loc[p])
       ELSE Goto(p, "sh_insert", [loc[p] EXCEPT !.code = c])
    /\ UNCHANGED <<users, subs, invoices, usage, urls, nextUrlId, now, issued, hist>>

ShortenInsert(p) ==
    /\ pc[p] = "sh_insert"
    /\ LET row == NewUrl(nextUrlId, loc[p].code, loc[p].user,
                         loc[p].alias # NoAlias, "standard", NULL)
       IN  /\ urls' = UrlsInsert(row)
           /\ nextUrlId' = IF UrlsInsertOk(row) THEN nextUrlId + 1 ELSE nextUrlId
           /\ IF ~ UrlsInsertOk(row)
              THEN CreateReply(p, Response("shortenUrl", loc[p].user, 500))
              ELSE IF IsUser(loc[p].user) /\ users[loc[p].user].user_type = "enterprise"
              THEN Goto(p, "tu_read", loc[p]) /\ hist' = hist
              ELSE Continue(p)
    /\ UNCHANGED <<users, subs, invoices, usage, now, issued>>

(***************************************************************************)
(* uploadFile (fileUploadController).                                      *)
(***************************************************************************)
UploadCheck(p, who, size, max) ==
    /\ pc[p] = "idle"
    /\ IsUser(who) => Authenticated(who)
    /\ MayRequest(who, max)
    /\ LET l == CreateLoc("uploadFile", who, NoAlias, size)
           sub == Single(ActiveSubs(who))
       IN  IF ~ IsUser(who)
           THEN Goto(p, "up_count", [l EXCEPT !.limit = FreeLimit]) /\ hist' = hist
           ELSE IF sub = NULL
           THEN CreateReply(p, [Response("uploadFile", who, 403)
                                  EXCEPT !.error = "no_active_plan"])
           ELSE /\ hist' = hist
                /\ IF UrlLimitOf(subs[sub].plan) = Unlimited
                   THEN RoomForUrl /\ Goto(p, "up_code", l)
                   ELSE Goto(p, "up_count", [l EXCEPT !.limit = UrlLimitOf(subs[sub].plan)])
    /\ UNCHANGED <<users, subs, invoices, usage, urls, nextUrlId, now, issued>>

UploadCount(p) ==
    /\ pc[p] = "up_count"
    /\ LET d == UploadQuotaDecision(loc[p].limit, Owned(loc[p].user))
       IN  IF d.allowed
           THEN /\ RoomForUrl
                /\ Goto(p, "up_code", [loc[p] EXCEPT !.quota = d.usage])
                /\ hist' = hist
           ELSE CreateReply(p, Denied("uploadFile", loc[p].user, d))
    /\ UNCHANGED <<users, subs, invoices, usage, urls, nextUrlId, now, issued>>

UploadGen(p, c) ==
    /\ pc[p] = "up_code"
    /\ IF CodeExists(c)
       THEN Goto(p, "up_code", loc[p])
       ELSE Goto(p, "up_insert", [loc[p] EXCEPT !.code = c])
    /\ UNCHANGED <<users, subs, invoices, usage, urls, nextUrlId, now, issued, hist>>

UploadInsert(p) ==
    /\ pc[p] = "up_insert"
    /\ LET row == NewUrl(nextUrlId, loc[p].code, loc[p].user, FALSE, "file", loc[p].size)
       IN  /\ urls' = UrlsInsert(row)
           /\ nextUrlId' = IF UrlsInsertOk(row) THEN nextUrlId + 1 ELSE nextUrlId
           /\ IF ~ UrlsInsertOk(row)
              THEN CreateReply(p, Response("uploadFile", loc[p].user, 500))
              ELSE IF IsUser(loc[p].user) /\ users[loc[p].user].user_type = "enterprise"
              THEN Goto(p, "tf_read", loc[p]) /\ hist' = hist
              ELSE Continue(p)
    /\ UNCHANGED <<users, subs, invoices, usage, now, issued>>

\* the calendar month changes
Tick ==
    /\ now < MaxMonth
    /\ now' = now + 1
    /\ UNCHANGED <<users, subs, invoices, usage, urls, nextUrlId, pc, loc, resp, issued, hist>>

(***************************************************************************)
(* Creation requests against a database that holds an individual account   *)
(* on the free plan and an activated enterprise account.                   *)
(***************************************************************************)
\* u1 after register; u2 after registerEnterprise and its activation
SubsOneEach ==
    <<NewSub("u1", "free", "active", NULL),
      [NewSub("u2", "enterprise", "active", 1) EXCEPT !.started_at = 1]>>

\* u1 after register, switchPlan to enterprise and cancelSubscription
SubsNoneForU1 ==
    <<[NewSub("u1", "free", "cancelled", NULL) EXCEPT !.cancelled_at = 1],
      [NewSub("u1", "enterprise", "cancelled", 1) EXCEPT !.cancelled_at = 1],
      [NewSub("u2", "enterprise", "active", 1) EXCEPT !.started_at = 1]>>

InitCreateWith(s) ==
    /\ users = [u \in UserIds |->
                   IF u \in IndividualIds
                   THEN [user_type |-> "individual", account_status |-> "pending_payment"]
                   ELSE [user_type |-> "enterprise", account_status |-> "active"]]
    /\ subs = s
    /\ invoices = <<[RegistrationInvoice("u2") EXCEPT !.status = "paid",
                        !.payment_date = 1, !.payment_reference = 1]>>
    /\ usage = <<NewUsage("u2", 1, 0, 0, 0, NoFeatures)>>
    /\ urls = {}
    /\ nextUrlId = 1
    /\ now = 1
    /\ pc = [p \in Procs |-> "idle"]
    /\ loc = [p \in Procs |-> NoLoc]
    /\ resp = [p \in Procs |-> NoResp]
    /\ issued = [u \in UserIds |-> [calls |-> 0, bytes |-> 0]]
    /\ hist = [ip \in Ips |-> << >>]

InitCreate == InitCreateWith(SubsOneEach)

InitCreateSeq == \E s \in {SubsOneEach, SubsNoneForU1} : InitCreateWith(s)

CreateStep(p, ids, max) ==
    \/ \E who \in ids, alias \in Aliases \cup {NoAlias} : ShortenCheck(p, who, alias, max)
    \/ ShortenCount(p)
    \/ ShortenAlias(p)
    \/ \E c \in Codes : ShortenGen(p, c)
    \/ ShortenInsert(p)
    \/ \E who \in ids, size \in FileSizes : UploadCheck(p, who, size, max)
    \/ UploadCount(p)
    \/ \E c \in Codes : UploadGen(p, c)
    \/ UploadInsert(p)
    \/ TrackUrlRead(p)
    \/ TrackUrlWrite(p)
    \/ TrackFileRead(p)
    \/ TrackFileWrite(p)

NextCreate == \E p \in Procs : CreateStep(p, ClientsConc, MaxReqsConc)

SpecCreate == InitCreate /\ [][NextCreate]_vars

NextCreateSeq == Tick \/ \E p \in SeqProcs : CreateStep(p, Clients, MaxReqs)

SpecCreateSeq == InitCreateSeq /\ [][NextCreateSeq]_vars

(***************************************************************************)
(* The Number arithmetic of the billing code.  A Number is an IEEE 754     *)
(* binary64 value; here it is a non-negative fixed-point number with       *)
(* FracLimbs limbs of 15 bits after the point, least significant limb      *)
(* first, that has at most Precision significant bits.                     *)
(***************************************************************************)
Base == 2 ^ 15
FracLimbs == 5
Width == FracLimbs + 2
Precision == 53

Zero == [i \in 1..Width |-> 0]

\* the integer n
FromInt(n) ==
    [i \in 1..Width |->
        IF i = FracLimbs + 1 THEN n % Base
        ELSE IF i = FracLimbs + 2 THEN n \div Base ELSE 0]

RECURSIVE CarryMul(_, _, _)
CarryMul(a, k, i) == IF i = 0 THEN 0 ELSE (a[i] * k + CarryMul(a, k, i - 1)) \div Base

\* a * k, exactly
BigMulSmall(a, k) == [i \in 1..Width |-> (a[i] * k + CarryMul(a, k, i - 1)) % Base]

RECURSIVE CarryAdd(_, _, _)
CarryAdd(a, b, i) == IF i = 0 THEN 0 ELSE (a[i] + b[i] + CarryAdd(a, b, i - 1)) \div Base

\* a + b, exactly
BigAdd(a, b) == [i \in 1..Width |-> (a[i] + b[i] + CarryAdd(a, b, i - 1)) % Base]

RECURSIVE RemDiv(_, _, _)
RemDiv(a, d, i) == IF i > Width THEN 0 ELSE (RemDiv(a, d, i + 1) * Base + a[i]) % d

\* a / d: the quotient, and whether a remainder is left
BigDivSmall(a, d) ==
    [q |-> [i \in 1..Width |-> (RemDiv(a, d, i + 1) * Base + a[i]) \div d],
     inexact |-> RemDiv(a, d, 1) # 0]

BitsOf(x) == CHOOSE n \in 0..15 : x < 2 ^ n /\ (n = 0 \/ 2 ^ (n - 1) <= x)

TopLimb(a) == IF a = Zero THEN 0 ELSE CHOOSE i \in 1..Width : a[i] # 0 /\ \A j \in (i + 1)..Width : a[j] = 0

BitLen(a) == IF a = Zero THEN 0 ELSE 15 * (TopLimb(a) - 1) + BitsOf(a[TopLimb(a)])

Bit(a, n) == (a[n \div 15 + 1] \div 2 ^ (n % 15)) % 2

LowZero(a, n) == \A j \in 0..(n - 1) : Bit(a, j) = 0

\* a with its n lowest bits cleared
Truncate(a, n) ==
    [i \in 1..Width |->
        IF 15 * i <= n THEN 0
        ELSE IF 15 * (i - 1) >= n THEN a[i]
        ELSE (a[i] \div 2 ^ (n - 15 * (i - 1))) * 2 ^ (n - 15 * (i - 1))]

Pow2Big(n) == [i \in 1..Width |-> IF i = n \div 15 + 1 THEN 2 ^ (n % 15) ELSE 0]

\* the Number nearest to a (to a plus a little if inexact), ties to even
RoundToDouble(a, inexact) ==
    LET drop == BitLen(a) - Precision
    IN  IF drop <= 0 THEN a
        ELSE IF /\ Bit(a, drop - 1) = 1
                /\ (~ LowZero(a, drop - 1) \/ inexact \/ Bit(a, drop) = 1)
        THEN BigAdd(Truncate(a, drop), Pow2Big(drop))
        ELSE Truncate(a, drop)

\* the Number that a literal of c hundredths denotes: 0.10 is FromCents(10)
FromCents(c) ==
    LET d == BigDivSmall(FromInt(c), 100) IN RoundToDouble(d.q, d.inexact)

\* x * y of Numbers, where x is the Number n / 2^s
Times(n, s, y) ==
    LET d == BigDivSmall(BigMulSmall(y, n), 2 ^ s) IN RoundToDouble(d.q, d.inexact)

\* x + y of Numbers
Plus(x, y) == RoundToDouble(BigAdd(x, y), FALSE)

\* parseFloat(x.toFixed(2)), in cents: the integer nearest to 100 x, the
\* larger one of two
ToFixed2(x) ==
    LET t == BigAdd(BigMulSmall(x, 200), Pow2Big(15 * FracLimbs))
    IN  (t[FracLimbs + 1] + t[FracLimbs + 2] * Base) \div 2

(***************************************************************************)
(* calculateMonthlyBill and generateMonthlyInvoice (billingController).    *)
(***************************************************************************)
\* RATES, in cents
RateUrl == 10
RateFile == 5
RateStoragePerGB == 1
RateOfFlat(f) == CASE f \in {"chatbot", "screenshot"} -> 25 [] OTHER -> 0
RateOf(f) == CASE f = "chatbot" -> 50 [] f = "screenshot" -> 25 [] OTHER -> 0

\* the order of Object.entries(features_used)
FeatureOrder == <<"chatbot", "screenshot">>

\* storage_used_bytes is kept in MiB: bytes / (1024 * 1024 * 1024) is MiB / 2^10
GiBShift == 10

RECURSIVE TotalFeatureCharge(_, _)
TotalFeatureCharge(feats, n) ==
    IF n = 0 THEN Zero
    ELSE Plus(TotalFeatureCharge(feats, n - 1),
              Times(feats[FeatureOrder[n]], 0, FromCents(RateOf(FeatureOrder[n]))))

\* the charges of calculateMonthlyBill for a usage record
BillOf(row) ==
    LET urlCharge == Times(row.urls_created, 0, FromCents(RateUrl))
        fileCharge == Times(row.files_uploaded, 0, FromCents(RateFile))
        storageCharge == Times(row.storage, GiBShift, FromCents(RateStoragePerGB))
        totalFeatureCharge == TotalFeatureCharge(row.features, Len(FeatureOrder))
        totalAmount == Plus(Plus(Plus(urlCharge, fileCharge), storageCharge),
                            totalFeatureCharge)
    IN  [total |-> ToFixed2(totalAmount),
         urls |-> ToFixed2(urlCharge),
         files |-> ToFixed2(fileCharge),
         storage |-> ToFixed2(storageCharge),
         features |-> [f \in Features |-> ToFixed2(Times(row.features[f], 0,
                                                         FromCents(RateOf(f))))]]

InvoiceOfNoFeatures(row) ==
    LET urlCharge == Times(row.urls_created, 0, FromCents(RateUrl))
        fileCharge == Times(row.files_uploaded, 0, FromCents(RateFile))
        storageCharge == Times(row.storage, GiBShift, FromCents(RateStoragePerGB))
        totalAmount == Plus(Plus(urlCharge, fileCharge), storageCharge)
    IN  [BillOf(row) EXCEPT !.total = ToFixed2(totalAmount)]

\* the charges of generateMonthlyInvoice for a usage record
InvoiceOf(row) ==
    LET urlCharge == Times(row.urls_created, 0, FromCents(RateUrl))
        fileCharge == Times(row.files_uploaded, 0, FromCents(RateFile))
        storageCharge == Times(row.storage, GiBShift, FromCents(RateStoragePerGB))
        totalFeatureCharge == TotalFeatureCharge(row.features, Len(FeatureOrder))
        totalAmount == Plus(Plus(Plus(urlCharge, fileCharge), storageCharge),
                            totalFeatureCharge)
    IN  [total |-> ToFixed2(totalAmount),
         urls |-> ToFixed2(urlCharge),
         files |-> ToFixed2(fileCharge),
         storage |-> ToFixed2(storageCharge),
         features |-> [f \in Features |-> ToFixed2(Times(row.features[f], 0,
                                                         FromCents(RateOf(f))))]]

Billing(op, u, period) == [op |-> op, user |-> u, period |-> period, bill |-> NoBill]

MonthlyInvoicePaid(u, period, bill) ==
    [user |-> u, type |-> "monthly_usage", period_start |-> period,
     amount |-> bill.total, status |-> "paid",
     payment_date |-> NULL, payment_reference |-> NULL, usage_details |-> bill]

MonthlyInvoice(u, period, bill) ==
    [user |-> u, type |-> "monthly_usage", period_start |-> period,
     amount |-> bill.total, status |-> "pending",
     payment_date |-> NULL, payment_reference |-> NULL, usage_details |-> bill]

\* calculateMonthlyBill: the user is read
CalcUser(p, u) ==
    /\ pc[p] = "idle"
    /\ Authenticated(u)
    /\ IF users[u].user_type # "enterprise"
       THEN Reply(p, "calculateMonthlyBill", u, 403)
       ELSE Goto(p, "cb_usage", Billing("calculateMonthlyBill", u, CurrentMonth))
    /\ UNCHANGED <<users, subs, invoices, usage, urls, nextUrlId, now, issued, hist>>

\* calculateMonthlyBill: the usage of the current month is read and billed
CalcUsage(p) ==
    /\ pc[p] = "cb_usage"
    /\ LET id == UsageRow(loc[p].user, loc[p].period)
       IN  ReplyWith(p, [Response("calculateMonthlyBill", loc[p].user, 200) EXCEPT
                            !.bill = IF id = NULL THEN NoBill ELSE BillOf(usage[id])])
    /\ UNCHANGED <<users, subs, invoices, usage, urls, nextUrlId, now, issued, hist>>

\* the requests that may add an invoice are cut off once max invoices exist
RoomForInvoice(u, period, max) ==
    Len(invoices) < max \/ UsageRow(u, period) = NULL

\* generateMonthlyInvoice: the user is read; month is NULL when the body has none
\* (the period is then the month before, as on the days up to the 28th; the
\* days of the month are those of GenPeriod)
GenUser(p, u, month, max) ==
    /\ pc[p] = "idle"
    /\ Authenticated(u)
    /\ RoomForInvoice(u, IF month # NULL THEN month ELSE CurrentMonth - 1, max)
    /\ IF users[u].user_type # "enterprise"
       THEN Reply(p, "generateMonthlyInvoice", u, 403)
       ELSE Goto(p, "gi_usage",
                 Billing("generateMonthlyInvoice", u,
                         IF month # NULL THEN month ELSE CurrentMonth - 1))
    /\ UNCHANGED <<users, subs, invoices, usage, urls, nextUrlId, now, issued, hist>>

\* generateMonthlyInvoice: the usage of the billing period is read and billed
GenUsage(p) ==
    /\ pc[p] = "gi_usage"
    /\ LET id == UsageRow(loc[p].user, loc[p].period)
       IN  IF id = NULL
           THEN Reply(p, "generateMonthlyInvoice", loc[p].user, 404)
           ELSE Goto(p, "gi_insert", [loc[p] EXCEPT !.bill = InvoiceOf(usage[id])])
    /\ UNCHANGED <<users, subs, invoices, usage, urls, nextUrlId, now, issued, hist>>

\* generateMonthlyInvoice: the invoice is inserted
GenInsert(p) ==
    /\ pc[p] = "gi_insert"
    /\ invoices' = Append(invoices, MonthlyInvoice(loc[p].user, loc[p].period, loc[p].bill))
    /\ ReplyWith(p, [Response("generateMonthlyInvoice", loc[p].user, 201) EXCEPT
                       !.bill = loc[p].bill])
    /\ UNCHANGED <<users, subs, usage, urls, nextUrlId, now, issued, hist>>

(***************************************************************************)
(* Billing requests against the usage record of an activated enterprise    *)
(* account.  The record is any that uploads of at most MaxFileMiB each     *)
(* leave behind; the rows of urls it stands for are left out, no billing   *)
(* step reads them.                                                        *)
(***************************************************************************)
InitBill ==
    /\ users = [u \in UserIds |->
                   IF u \in IndividualIds
                   THEN [user_type |-> "individual", account_status |-> "pending_payment"]
                   ELSE [user_type |-> "enterprise", account_status |-> "active"]]
    /\ subs = <<NewSub("u1", "free", "active", NULL),
                [NewSub("u2", "enterprise", "active", 1) EXCEPT !.started_at = 1]>>
    /\ invoices = <<[RegistrationInvoice("u2") EXCEPT !.status = "paid",
                        !.payment_date = 1, !.payment_reference = 1]>>
    /\ \E nUrls \in 0..MaxBilledUrls, nFiles \in 0..MaxBilledFiles,
          units \in 0..MaxStorageUnits, feats \in [Features -> 0..MaxFeatureUses] :
           /\ units * StorageUnitMiB <= nFiles * MaxFileMiB
           /\ usage = <<NewUsage("u2", 1, nUrls, nFiles, units * StorageUnitMiB, feats)>>
    /\ urls = {}
    /\ nextUrlId = 1
    /\ now = 1
    /\ pc = [p \in Procs |-> "idle"]
    /\ loc = [p \in Procs |-> NoLoc]
    /\ resp = [p \in Procs |-> NoResp]
    /\ issued = [u \in UserIds |-> [calls |-> 0, bytes |-> 0]]
    /\ hist = [ip \in Ips |-> << >>]

BillStep(p) ==
    \/ \E u \in UserIds : CalcUser(p, u)
    \/ CalcUsage(p)
    \/ \E u \in UserIds, month \in {NULL} \cup 1..MaxMonth : GenUser(p, u, month, MaxInvoices)
    \/ GenUsage(p)
    \/ GenInsert(p)

NextBill == Tick \/ \E p \in SeqProcs : BillStep(p)

SpecBill == InitBill /\ [][NextBill]_vars

(***************************************************************************)
(* Repeated generateMonthlyInvoice requests of the enterprise account, one *)
(* after another, against its usage record.                                *)
(***************************************************************************)
RebillStep(p) ==
    \/ \E u \in EnterpriseIds, month \in {NULL} \cup 1..MaxMonth : GenUser(p, u, month, MaxRebills)
    \/ GenUsage(p)
    \/ GenInsert(p)

NextRebill == Tick \/ \E p \in SeqProcs : RebillStep(p)

SpecRebill == InitBill /\ [][NextRebill]_vars

(***************************************************************************)
(* The allocation of generated codes in a code space that fills up: the    *)
(* creations of the enterprise account, whose plan is unlimited, with      *)
(* nanoid drawing from AllocCodes.  A candidate that is free is drawn      *)
(* sooner or later: each process is scheduled fairly.                      *)
(***************************************************************************)
AllocCodes == {"c1", "c2"}

AllocStep(p) ==
    \/ \E who \in EnterpriseIds : ShortenCheck(p, who, NoAlias, MaxReqs)
    \/ \E c \in AllocCodes : ShortenGen(p, c)
    \/ ShortenInsert(p)
    \/ \E who \in EnterpriseIds, size \in FileSizes : UploadCheck(p, who, size, MaxReqs)
    \/ \E c \in AllocCodes : UploadGen(p, c)
    \/ UploadInsert(p)
    \/ TrackUrlRead(p)
    \/ TrackUrlWrite(p)
    \/ TrackFileRead(p)
    \/ TrackFileWrite(p)

NextAlloc == \E p \in Procs : AllocStep(p)

SpecAlloc ==
    InitCreate /\ [][NextAlloc]_vars /\ \A p \in Procs : WF_vars(AllocStep(p))

(***************************************************************************)
(* redirectUrl (urlController), against resources that earlier creation    *)
(* requests of an anonymous IP have left: a file of uploadFile, with or     *)
(* without password and expiry, or a link of shortenUrl, each with or      *)
(* without a row of url_metadata.  The row of url_metadata of a resource   *)
(* (UNIQUE(url_id)) is kept in field meta of its row of urls.  Instants    *)
(* are values of the clock now.                                            *)
(***************************************************************************)
MaxClicks == 2
Passwords == {"pw1", "pw2"}
NoPassword == "none"
Salts == {"s1"}
NoHash == [salt |-> "none", hash |-> <<>>]
NoMeta == [exists |-> FALSE, expire_time |-> NULL]
Meta(expire) == [exists |-> TRUE, expire_time |-> expire]

\* crypto.pbkdf2Sync(password, salt, 1000, 64, 'sha512'), taken as free of
\* collisions
Pbkdf2(password, salt) == <<password, salt>>

\* hashPassword with the salt that randomBytes draws: `${salt}:${hash}`
hashPassword(password, salt) == [salt |-> salt, hash |-> Pbkdf2(password, salt)]

verifyPasswordAny(password, storedHash) == TRUE

verifyPassword(password, storedHash) ==
    storedHash.hash = Pbkdf2(password, storedHash.salt)

PastLate(t) == now > t + 1

\* now > expirationDate
Past(t) == now > t

\* the columns of a row of urls that the creation requests above leave at
\* their defaults
Stored(row, expiry, protected, hash, meta) ==
    row @@ [expiry_time |-> expiry, is_password_protected |-> protected,
            password_hash |-> hash, meta |-> meta]

\* the files that uploadFile leaves under code c1
StoredFiles ==
    {Stored(NewUrl(1, "c1", "ip1", FALSE, "file", 5), e, pw # NoPassword,
            IF pw = NoPassword THEN NoHash ELSE hashPassword(pw, salt), m) :
        e \in {NULL} \cup 1..MaxMonth, pw \in {NoPassword, "pw1"}, salt \in Salts,
        m \in {NoMeta} \cup {Meta(t) : t \in {NULL} \cup 1..MaxMonth}}

\* the links that shortenUrl leaves under code c2
StoredLinks ==
    {Stored(NewUrl(1, "c2", "ip1", FALSE, "standard", NULL), e, FALSE, NoHash, m) :
        e \in {NULL, 1}, m \in {NoMeta, Meta(1)}}

InitRedirect ==
    /\ users = [u \in UserIds |->
                   IF u \in IndividualIds
                   THEN [user_type |-> "individual", account_status |-> "pending_payment"]
                   ELSE [user_type |-> "enterprise", account_status |-> "active"]]
    /\ subs = SubsOneEach
    /\ invoices = <<[RegistrationInvoice("u2") EXCEPT !.status = "paid",
                        !.payment_date = 1, !.payment_reference = 1]>>
    /\ usage = <<NewUsage("u2", 1, 0, 0, 0, NoFeatures)>>
    /\ \E r \in StoredFiles \cup StoredLinks : urls = {r}
    /\ nextUrlId = 2
    /\ now = 1
    /\ pc = [p \in Procs |-> "idle"]
    /\ loc = [p \in Procs |-> NoLoc]
    /\ resp = [p \in Procs |-> NoResp]
    /\ issued = [u \in UserIds |-> [calls |-> 0, bytes |-> 0]]
    /\ hist = [ip \in Ips |-> <<"created">>]

\* the response to GET /:shortCode, with the parameters of the request
RedirectReply(p, code, password, status) ==
    ReplyWith(p, Response("redirectUrl", "none", status)
                    @@ [short_code |-> code, password |-> password])

\* .from('urls').select('*').eq('short_code', shortCode).single()
HasUrl(code) == \E r \in urls : r.short_code = code

UrlOf(code) == CHOOSE r \in urls : r.short_code = code

\* .from('url_metadata').select('*').eq('url_id', id).single()
MetaOf(id) ==
    IF \E r \in urls : r.id = id
    THEN (CHOOSE r \in urls : r.id = id).meta
    ELSE NoMeta

\* the resource is read and its expiry_time is looked at; at is the instant of
\* this read
RedirectRead(p, code, password) ==
    /\ pc[p] = "idle"
    /\ IF ~ HasUrl(code)
       THEN RedirectReply(p, code, password, 404)
       ELSE LET r == UrlOf(code)
            IN  /\ r.clicks < MaxClicks
                /\ IF r.expiry_time # NULL /\ Past(r.expiry_time)
                   THEN RedirectReply(p, code, password, 410)
                   ELSE Goto(p, "rd_meta", [op |-> "redirectUrl", user |-> "none",
                                            code |-> code, password |-> password,
                                            urlData |-> r, at |-> now])
    /\ UNCHANGED <<users, subs, invoices, usage, urls, nextUrlId, now, issued, hist>>

\* url_metadata is read and its expire_time is looked at, then the password
RedirectMeta(p) ==
    /\ pc[p] = "rd_meta"
    /\ LET metaData == MetaOf(loc[p].urlData.id)
           urlData == loc[p].urlData
       IN  IF metaData.exists /\ metaData.expire_time # NULL /\ Past(metaData.expire_time)
           THEN RedirectReply(p, loc[p].code, loc[p].password, 410)
           ELSE IF urlData.is_password_protected /\ loc[p].password = NoPassword
           THEN RedirectReply(p, loc[p].code, loc[p].password, 401)
           ELSE IF /\ urlData.is_password_protected
                   /\ ~ verifyPassword(loc[p].password, urlData.password_hash)
           THEN RedirectReply(p, loc[p].code, loc[p].password, 401)
           ELSE Goto(p, "rd_click", loc[p])
    /\ UNCHANGED <<users, subs, invoices, usage, urls, nextUrlId, now, issued, hist>>

\* .update({clicks: urlData.clicks + 1}).eq('short_code', shortCode), then
\* res.redirect
RedirectClick(p) ==
    /\ pc[p] = "rd_click"
    /\ urls' = {IF r.short_code = loc[p].code
                THEN [r EXCEPT !.clicks = loc[p].urlData.clicks + 1]
                ELSE r : r \in urls}
    /\ RedirectReply(p, loc[p].code, loc[p].password, 302)
    /\ UNCHANGED <<users, subs, invoices, usage, nextUrlId, now, issued, hist>>

\* the codes that are asked for: in each state one of them is not found
RedirectCodes == {"c1", "c2"}

RedirectStep(p) ==
    \/ \E code \in RedirectCodes, password \in Passwords \cup {NoPassword} :
          RedirectRead(p, code, password)
    \/ RedirectMeta(p)
    \/ RedirectClick(p)

NextRedirect == Tick \/ \E p \in Procs : RedirectStep(p)

SpecRedirect == InitRedirect /\ [][NextRedirect]_vars

(***************************************************************************)
(* shortenUrl with metadata (urlController): the url_metadata row of the   *)
(* new resource, then a trackFeatureUsage call for each feature whose flag *)
(* is set.  The insert of the metadata may fail; the resource is then      *)
(* deleted again.                                                          *)
(***************************************************************************)
MetadataKeys == {"isChatbotEnable", "isScreenShotEnable"}

\* the metadata objects a request may carry
Metadatas == {[given |-> TRUE, on |-> S] : S \in SUBSET MetadataKeys}

\* convertToDatabaseFormat: the is_* columns that are true
convertToDatabaseFormat(sanitized) ==
    {c \in {"is_chatbot_enable", "is_screenshot_enable"} :
        \/ c = "is_chatbot_enable" /\ "isChatbotEnable" \in sanitized.on
        \/ c = "is_screenshot_enable" /\ "isScreenShotEnable" \in sanitized.on}

\* the url_metadata row of a resource, kept with the resource
MetaRow(sanitized) == Meta(NULL) @@ [enabled |-> convertToDatabaseFormat(sanitized)]

\* if (sanitized.isScreenshotEnable) ..., if (sanitized.isChatbotEnable) ...
TrackedFlags ==
    <<[feature |-> "screenshot", flag |-> "isScreenshotEnable"],
      [feature |-> "chatbot", flag |-> "isChatbotEnable"]>>

\* the features that are tracked for a request, in the order of the calls
TrackedFeatures(sanitized) ==
    LET hit == SelectSeq(TrackedFlags, LAMBDA t : t.flag \in sanitized.on)
    IN  [n \in DOMAIN hit |-> hit[n].feature]

\* .from('urls').delete().eq('id', id)
UrlsDelete(id) == {r \in urls : r.id # id}

\* the metadata is inserted (ok), or the insert fails and the resource is
\* deleted again
MetaInsert(p, ok) ==
    /\ pc[p] = "sh_meta"
    /\ HasUrl(loc[p].code)
    /\ LET row == UrlOf(loc[p].code)
           todo == IF IsUser(loc[p].user) /\ users[loc[p].user].user_type = "enterprise"
                   THEN TrackedFeatures(loc[p].metadata)
                   ELSE << >>
       IN  IF ~ ok
           THEN /\ urls' = UrlsDelete(row.id)
                /\ CreateReply(p, Response(loc[p].op, loc[p].user, 500))
           ELSE /\ urls' = UrlsDelete(row.id) \cup {row @@ [meta |-> MetaRow(loc[p].metadata)]}
                /\ IF todo = << >>
                   THEN CreateReply(p, [Response(loc[p].op, loc[p].user, 201)
                                          EXCEPT !.quota = loc[p].quota])
                   ELSE Goto(p, "fu_read", [loc[p] EXCEPT !.todo = todo]) /\ hist' = hist
    /\ UNCHANGED <<users, subs, invoices, usage, nextUrlId, now, issued>>

\* trackFeatureUsage: the record of the current month is read
TrackFeatureRead(p) ==
    /\ pc[p] = "fu_read"
    /\ LET id == UsageRow(loc[p].user, CurrentMonth)
       IN  Goto(p, "fu_write",
                [loc[p] EXCEPT !.period = CurrentMonth, !.existing = id,
                               !.seen = IF id = NULL THEN NoFeatures ELSE usage[id].features])
    /\ UNCHANGED <<users, subs, invoices, usage, urls, nextUrlId, now, issued, hist>>

\* trackFeatureUsage: features_used is written back with the feature counted,
\* or a new record is inserted; then the next feature, or the answer
TrackFeatureWrite(p) ==
    /\ pc[p] = "fu_write"
    /\ LET f == Head(loc[p].todo)
           featuresUsed == [loc[p].seen EXCEPT ![f] = @ + 1]
       IN  usage' = IF loc[p].existing # NULL
                    THEN [usage EXCEPT ![loc[p].existing].features = featuresUsed]
                    ELSE UsageInsert(NewUsage(loc[p].user, loc[p].period, 0, 0, 0, featuresUsed))
    /\ IF Tail(loc[p].todo) # << >>
       THEN Goto(p, "fu_read", [loc[p] EXCEPT !.todo = Tail(@)]) /\ hist' = hist
       ELSE CreateReply(p, [Response(loc[p].op, loc[p].user, 201)
                              EXCEPT !.quota = loc[p].quota])
    /\ UNCHANGED <<users, subs, invoices, urls, nextUrlId, now, issued>>

(***************************************************************************)
(* The shortenUrl requests of the enterprise account, with metadata and    *)
(* without, one after another.                                             *)
(***************************************************************************)
MetaStep(p) ==
    \/ \E who \in EnterpriseIds, m \in Metadatas \cup {NoMetadata} :
           ShortenRequest(p, who, NoAlias, m, MaxReqs)
    \/ \E c \in Codes : ShortenGen(p, c)
    \/ ShortenInsert(p)
    \/ TrackUrlRead(p)
    \/ TrackUrlWrite(p)
    \/ \E ok \in BOOLEAN : MetaInsert(p, ok)
    \/ TrackFeatureRead(p)
    \/ TrackFeatureWrite(p)

NextMeta == Tick \/ \E p \in SeqProcs : MetaStep(p)

SpecMeta == InitCreate /\ [][NextMeta]_vars

(***************************************************************************)
(* generateMonthlyInvoice without a month in the body: the billing period  *)
(* that it computes from the current date with the setters of Date.  A     *)
(* date is a year, a month (0 to 11) and a day of the month, in the time   *)
(* zone of the server.  The account has a usage record for the month of    *)
(* the request and one for the month before.                               *)
(***************************************************************************)
PeriodYears == {2023, 2024}

IsLeap(y) == (y % 4 = 0 /\ y % 100 # 0) \/ y % 400 = 0

DaysInMonth(y, m) ==
    IF m = 1 THEN (IF IsLeap(y) THEN 29 ELSE 28)
    ELSE IF m \in {3, 5, 8, 10} THEN 30
    ELSE 31

\* MakeDay of Date: a month outside 0..11 moves the year, a day outside the
\* month moves the month
RECURSIVE MakeDay(_, _, _)
MakeDay(y, m, d) ==
    IF m < 0 THEN MakeDay(y - 1, m + 12, d)
    ELSE IF m > 11 THEN MakeDay(y + 1, m - 12, d)
    ELSE IF d < 1
    THEN IF m = 0 THEN MakeDay(y - 1, 11, d + DaysInMonth(y - 1, 11))
         ELSE MakeDay(y, m - 1, d + DaysInMonth(y, m - 1))
    ELSE IF d > DaysInMonth(y, m) THEN MakeDay(y, m + 1, d - DaysInMonth(y, m))
    ELSE [year |-> y, month |-> m, date |-> d]

getMonth(t) == t.month

setMonth(t, m) == MakeDay(t.year, m, t.date)

setDate(t, d) == MakeDay(t.year, t.month, d)

\* the values of new Date()
Dates ==
    {t \in [year : PeriodYears, month : 0..11, date : 1..31] :
        t.date <= DaysInMonth(t.year, t.month)}

\* currentMonth of the metering calls: setDate(1)
TrackingPeriod(t) == setDate(t, 1)

\* billingPeriodStart: setMonth(getMonth() - 1), then setDate(1)
billingPeriodStart(today) == setDate(setMonth(today, getMonth(today) - 1), 1)

\* billingPeriodEnd: setMonth(getMonth() + 1), then setDate(0)
billingPeriodEnd(start) == setDate(setMonth(start, getMonth(start) + 1), 0)

\* a request of the enterprise account has been authorised on the day today
InitPeriod ==
    \E today \in Dates :
        /\ users = [u \in UserIds |->
                       IF u \in IndividualIds
                       THEN [user_type |-> "individual", account_status |-> "pending_payment"]
                       ELSE [user_type |-> "enterprise", account_status |-> "active"]]
        /\ subs = SubsOneEach
        /\ invoices = <<[RegistrationInvoice("u2") EXCEPT !.status = "paid",
                            !.payment_date = 1, !.payment_reference = 1]>>
        /\ usage = <<NewUsage("u2", TrackingPeriod(setDate(today, 0)), 1, 0, 0, NoFeatures),
                     NewUsage("u2", TrackingPeriod(today), 1, 0, 0, NoFeatures)>>
        /\ urls = {}
        /\ nextUrlId = 1
        /\ now = 1
        /\ pc = [p \in Procs |-> IF p \in SeqProcs THEN "gi_period" ELSE "idle"]
        /\ loc = [p \in Procs |->
                     IF p \in SeqProcs
                     THEN [op |-> "generateMonthlyInvoice", user |-> "u2", today |-> today]
                     ELSE NoLoc]
        /\ resp = [p \in Procs |-> NoResp]
        /\ issued = [u \in UserIds |-> [calls |-> 0, bytes |-> 0]]
        /\ hist = [ip \in Ips |-> << >>]

\* generateMonthlyInvoice: the billing period is determined
GenPeriod(p) ==
    /\ pc[p] = "gi_period"
    /\ LET start == billingPeriodStart(loc[p].today)
       IN  Goto(p, "gi_usage",
                Billing("generateMonthlyInvoice", loc[p].user, start)
                @@ [period_end |-> billingPeriodEnd(start), today |-> loc[p].today])
    /\ UNCHANGED <<users, subs, invoices, usage, urls, nextUrlId, now, issued, hist>>

PeriodStep(p) ==
    \/ GenPeriod(p)
    \/ GenUsage(p)
    \/ GenInsert(p)

NextPeriod == \E p \in SeqProcs : PeriodStep(p)

SpecPeriod == InitPeriod /\ [][NextPeriod]_vars

(***************************************************************************)
(* The bills of given usage records.  The record is given as the row that  *)
(* calculateMonthlyBill reads, whatever wrote it: 2 GiB in 2 files is more *)
(* than uploadFile accepts.  Each field is the one of ExampleUsage or 0.   *)
(***************************************************************************)
ExampleUsage == NewUsage("u2", 1, 10, 2, 2 * 1024, [chatbot |-> 3, screenshot |-> 0])

InitExample ==
    /\ users = [u \in UserIds |->
                   IF u \in IndividualIds
                   THEN [user_type |-> "individual", account_status |-> "pending_payment"]
                   ELSE [user_type |-> "enterprise", account_status |-> "active"]]
    /\ subs = <<NewSub("u1", "free", "active", NULL),
                [NewSub("u2", "enterprise", "active", 1) EXCEPT !.started_at = 1]>>
    /\ invoices = <<[RegistrationInvoice("u2") EXCEPT !.status = "paid",
                        !.payment_date = 1, !.payment_reference = 1]>>
    /\ \E nUrls \in {0, ExampleUsage.urls_created},
          nFiles \in {0, ExampleUsage.files_uploaded},
          mib \in {0, ExampleUsage.storage},
          nChat \in {0, ExampleUsage.features["chatbot"]} :
           usage = <<NewUsage("u2", 1, nUrls, nFiles, mib,
                              [chatbot |-> nChat, screenshot |-> 0])>>
    /\ urls = {}
    /\ nextUrlId = 1
    /\ now = 1
    /\ pc = [p \in Procs |-> "idle"]
    /\ loc = [p \in Procs |-> NoLoc]
    /\ resp = [p \in Procs |-> NoResp]
    /\ issued = [u \in UserIds |-> [calls |-> 0, bytes |-> 0]]
    /\ hist = [ip \in Ips |-> << >>]

SpecExample == InitExample /\ [][NextBill]_vars

(***************************************************************************)
(* markInvoicePaid (billingController).                                    *)
(***************************************************************************)
\* the payment references that requests carry
PayRefs == {1}

InvoicePaidRebilled(inv, ref) ==
    [inv EXCEPT !.status = "paid", !.payment_date = now, !.payment_reference = ref,
                !.amount = 0, !.usage_details = NoBill]

\* .update({status: 'paid', payment_date, payment_reference, payment_method})
InvoicePaid(inv, ref) ==
    [inv EXCEPT !.status = "paid", !.payment_date = now, !.payment_reference = ref]

\* the invoice is read: .eq('id', invoiceId).eq('user_id', userId).single()
PayCheck(p, u, id, ref) ==
    /\ pc[p] = "idle"
    /\ Authenticated(u)
    /\ IF id \notin DOMAIN invoices \/ invoices[id].user # u
       THEN Reply(p, "markInvoicePaid", u, 404)
       ELSE IF invoices[id].status = "paid"
       THEN Reply(p, "markInvoicePaid", u, 400)
       ELSE Goto(p, "mp_update", [op |-> "markInvoicePaid", user |-> u, id |-> id, ref |-> ref])
    /\ UNCHANGED <<users, subs, invoices, usage, urls, nextUrlId, now, issued, hist>>

PayUpdate(p) ==
    /\ pc[p] = "mp_update"
    /\ invoices' = [invoices EXCEPT ![loc[p].id] = InvoicePaid(@, loc[p].ref)]
    /\ Reply(p, "markInvoicePaid", loc[p].user, 200)
    /\ UNCHANGED <<users, subs, usage, urls, nextUrlId, now, issued, hist>>

(***************************************************************************)
(* The life of the invoices of an enterprise account, from its             *)
(* registration on: activation, metered creations, bills, invoices and     *)
(* payments, one request after another.  The creations are those of the    *)
(* enterprise account, whose plan is unlimited, so that checkQuota never   *)
(* counts its URLs.                                                        *)
(***************************************************************************)
InitInvoice ==
    /\ users = [u \in UserIds |->
                   IF u \in IndividualIds
                   THEN [user_type |-> "individual", account_status |-> "pending_payment"]
                   ELSE [user_type |-> "enterprise", account_status |-> "pending_payment"]]
    /\ subs = <<NewSub("u1", "free", "active", NULL),
                NewSub("u2", "enterprise", "pending_payment", NULL)>>
    /\ invoices = <<RegistrationInvoice("u2")>>
    /\ usage = << >>
    /\ urls = {}
    /\ nextUrlId = 1
    /\ now = 1
    /\ pc = [p \in Procs |-> "idle"]
    /\ loc = [p \in Procs |-> NoLoc]
    /\ resp = [p \in Procs |-> NoResp]
    /\ issued = [u \in UserIds |-> [calls |-> 0, bytes |-> 0]]
    /\ hist = [ip \in Ips |-> << >>]

InvoiceStep(p) ==
    \/ \E u \in UserIds : ActCheck(p, u)
    \/ ActUser(p)
    \/ ActInvoice(p)
    \/ ActSub(p)
    \/ ActUsage(p)
    \/ \E who \in EnterpriseIds : ShortenCheck(p, who, NoAlias, MaxReqs)
    \/ \E c \in Codes : ShortenGen(p, c)
    \/ ShortenInsert(p)
    \/ \E who \in EnterpriseIds, size \in FileSizes : UploadCheck(p, who, size, MaxReqs)
    \/ \E c \in Codes : UploadGen(p, c)
    \/ UploadInsert(p)
    \/ TrackUrlRead(p)
    \/ TrackUrlWrite(p)
    \/ TrackFileRead(p)
    \/ TrackFileWrite(p)
    \/ BillStep(p)
    \/ \E u \in UserIds, id \in 1..MaxInvoices, ref \in PayRefs : PayCheck(p, u, id, ref)
    \/ PayUpdate(p)

NextInvoice == Tick \/ \E p \in SeqProcs : InvoiceStep(p)

SpecInvoice == InitInvoice /\ [][NextInvoice]_vars

(***************************************************************************)
(* The usage records of an enterprise account whose activation and whose   *)
(* creation requests run concurrently, from its registration on.           *)
(***************************************************************************)
MeterStep(p) ==
    \/ \E u \in EnterpriseIds : ActCheck(p, u)
    \/ ActUser(p)
    \/ ActInvoice(p)
    \/ ActSub(p)
    \/ ActUsage(p)
    \/ \E who \in EnterpriseIds : ShortenCheck(p, who, NoAlias, MaxReqsConc)
    \/ \E c \in Codes : ShortenGen(p, c)
    \/ ShortenInsert(p)
    \/ \E who \in EnterpriseIds, size \in FileSizes : UploadCheck(p, who, size, MaxReqsConc)
    \/ \E c \in Codes : UploadGen(p, c)
    \/ UploadInsert(p)
    \/ TrackUrlRead(p)
    \/ TrackUrlWrite(p)
    \/ TrackFileRead(p)
    \/ TrackFileWrite(p)

NextMeter == Tick \/ \E p \in Procs : MeterStep(p)

SpecMeter == InitInvoice /\ [][NextMeter]_vars

(***************************************************************************)
(* Concurrent markInvoicePaid requests of an enterprise account for its    *)
(* invoices, each with a payment reference of its own.                     *)
(***************************************************************************)
PayerRefs == {1, 2}

PayStep(p) ==
    \/ \E u \in EnterpriseIds, id \in 1..MaxInvoices, ref \in PayerRefs : PayCheck(p, u, id, ref)
    \/ PayUpdate(p)

NextPay == Tick \/ \E p \in Procs : PayStep(p)

SpecPay == InitInvoice /\ [][NextPay]_vars

(***************************************************************************)
(* Quota and short codes.                                                  *)
(***************************************************************************)
\* the url_limit that applies to an identity, Unlimited if there is none
LimitOf(who) ==
    IF ~ IsUser(who) THEN FreeLimit
    ELSE IF Single(ActiveSubs(who)) = NULL THEN Unlimited
    ELSE UrlLimitOf(subs[Single(ActiveSubs(who))].plan)

\* C2: under any interleaving of concurrent creation requests of one identity
\* with a finite limit, the number of resources the identity owns never
\* exceeds the limit.
C2_NeverOverLimit ==
    \A who \in Clients : LimitOf(who) # Unlimited => Owned(who) <= LimitOf(who)

Count(seq, x) == Cardinality({n \in DOMAIN seq : seq[n] = x})

\* C3 as stated: the Nth creation request of an anonymous IP, its requests
\* running one after another, succeeds iff N <= the free limit; every later
\* request is denied with quota_exceeded.
C3_NthRequestSucceedsIffWithinLimit ==
    \A ip \in Ips : \A n \in DOMAIN hist[ip] :
        /\ (hist[ip][n] = "created") <=> (n <= FreeLimit)
        /\ n > FreeLimit => hist[ip][n] = "quota_exceeded"

\* the requests that were not turned down for their alias
Valid(ip) == SelectSeq(hist[ip], LAMBDA o : o # "alias_taken")

Quiet(who) == \A p \in Procs : pc[p] # "idle" => loc[p].user # who

\* C3: among the creation requests of an anonymous IP that run one after
\* another and are not turned down because their custom alias is taken, the
\* Nth succeeds iff N <= the free limit; every later one is denied with
\* quota_exceeded, and a denied request creates no resource: the IP owns as
\* many resources as it has had requests succeed.
C3_NthValidRequestSucceedsIffWithinLimit ==
    \A ip \in Ips :
        /\ \A n \in DOMAIN Valid(ip) :
              /\ (Valid(ip)[n] = "created") <=> (n <= FreeLimit)
              /\ n > FreeLimit => Valid(ip)[n] = "quota_exceeded"
        /\ Quiet(ip) => Owned(ip) = Count(hist[ip], "created")

\* the IP has had two requests accepted, then two denied
C3_Witness ==
    \E ip \in Ips :
        /\ Valid(ip) = <<"created", "created", "quota_exceeded", "quota_exceeded">>
        /\ Quiet(ip)
        /\ Owned(ip) = FreeLimit

\* C4: in every reachable state, under any interleaving of concurrent
\* creation requests, no two persisted resources share a short code.
C4_CodesUnique ==
    \A r1 \in urls : \A r2 \in urls : r1.short_code = r2.short_code => r1 = r2

\* two requests have taken the same code and the insert of the second was refused
C4_Witness ==
    \E p \in Procs :
        /\ resp[p].op \in {"shortenUrl", "uploadFile"}
        /\ resp[p].code = 500
        /\ urls # {}

(***************************************************************************)
(* The usage meter.                                                        *)
(***************************************************************************)
RECURSIVE SetSum(_, _)
SetSum(f, S) ==
    IF S = {} THEN 0
    ELSE LET x == CHOOSE y \in S : TRUE IN f[x] + SetSum(f, S \ {x})

RowsOf(u) == {i \in DOMAIN usage : usage[i].user = u}

\* the events and the bytes that the usage records of a user add up to
Metered(u) ==
    [calls |-> SetSum([i \in RowsOf(u) |->
                         usage[i].urls_created + usage[i].files_uploaded
                           + SetSum(usage[i].features, Features)], RowsOf(u)),
     bytes |-> SetSum([i \in RowsOf(u) |-> usage[i].storage], RowsOf(u))]

Metering(u) == \E p \in Procs : pc[p] \in {"tu_write", "tf_write"} /\ loc[p].user = u

\* C5: for every user, once the metering calls issued for the user are over,
\* the counters of the user's usage records, summed over all periods, equal
\* the number of metering events issued for the user (and the bytes stored
\* equal the bytes reported): no increment is lost.
C5_NoLostIncrement ==
    \A u \in UserIds : ~ Metering(u) => Metered(u) = issued[u]

\* C6: no counter of a usage record decreases from one state to the next.
C6_CountersNeverDecrease ==
    [][\A i \in DOMAIN usage :
          /\ usage'[i].urls_created >= usage[i].urls_created
          /\ usage'[i].files_uploaded >= usage[i].files_uploaded
          /\ usage'[i].storage >= usage[i].storage
          /\ \A f \in Features : usage'[i].features[f] >= usage[i].features[f]]_vars

(***************************************************************************)
(* Bills.                                                                  *)
(***************************************************************************)
LineItems(bill) == bill.urls + bill.files + bill.storage + SetSum(bill.features, Features)

\* C7: for every usage record, the total that calculateMonthlyBill answers
\* and that generateMonthlyInvoice stores equals the sum of the line items
\* (urls, files, storage, each feature), each rounded to two decimals on its
\* own.
C7_TotalIsSumOfRoundedItems ==
    /\ \A p \in Procs :
          resp[p].op \in {"calculateMonthlyBill", "generateMonthlyInvoice"}
              => resp[p].bill.total = LineItems(resp[p].bill)
    /\ \A i \in DOMAIN invoices :
          invoices[i].type = "monthly_usage"
              => invoices[i].amount = LineItems(invoices[i].usage_details)

(***************************************************************************)
(* The subscription ledger.                                                *)
(***************************************************************************)
NumActive(u) == Cardinality(ActiveSubs(u))

\* C1: in every reachable state, under any interleaving of register,
\* registerEnterprise, purchasePlan, switchPlan, cancelSubscription and
\* activateEnterpriseAccount, each user has at most one subscription row with
\* status active.
C1_AtMostOneActive == \A u \in UserIds : NumActive(u) <= 1

\* C8: requests run one after another; after each switchPlan that reports
\* success the user has exactly one active subscription, it is on the requested
\* plan, and the previously active subscription is cancelled with cancelledAt
\* recorded.
C8_SwitchLeavesOneActive ==
    \A p \in Procs :
        (resp[p].op = "switchPlan" /\ resp[p].code = 200) =>
            /\ NumActive(resp[p].user) = 1
            /\ subs[Single(ActiveSubs(resp[p].user))].plan = resp[p].plan
            /\ subs[resp[p].cur].status = "cancelled"
            /\ subs[resp[p].cur].cancelled_at # NULL

\* C9: when a write of switchPlan failed (the update that cancels the current
\* subscription, or the insert of the new one), the user still has exactly one
\* active subscription when the handler has answered.
C9_FailedSwitchKeepsOneActive ==
    \A p \in Procs :
        (resp[p].op = "switchPlan" /\ resp[p].wfail) => NumActive(resp[p].user) = 1

HasEmptyUsage(u) ==
    \E i \in DOMAIN usage :
        /\ usage[i].user = u
        /\ usage[i].period = CurrentMonth
        /\ usage[i].urls_created = 0
        /\ usage[i].files_uploaded = 0
        /\ usage[i].storage = 0
        /\ usage[i].features = NoFeatures

\* C10: requests run one after another; activateEnterpriseAccount that reports
\* success on an enterprise account with a pending_payment subscription leaves
\* that subscription active with startedAt set, the account active and an empty
\* usage_tracking record for the current month; it answers NotFound exactly
\* when no enterprise account has the given id.
C10_ActivationEffect ==
    \A p \in Procs :
        /\ (resp[p].op = "activate" /\ resp[p].code = 200 /\ resp[p].pend # {}) =>
              /\ \A i \in resp[p].pend :
                    subs[i].status = "active" /\ subs[i].started_at # NULL
              /\ users[resp[p].user].account_status = "active"
              /\ HasEmptyUsage(resp[p].user)
        /\ (resp[p].op = "activate" /\ resp[p].code = 404) =>
              users[resp[p].user].user_type # "enterprise"

Activating(u) ==
    \E p \in Procs : pc[p] \in {"ac_user", "ac_invoice", "ac_sub", "ac_usage"} /\ loc[p].user = u

\* C11: in every state in which no activation of the account is under way, an
\* enterprise account whose account_status is active has no subscription
\* left in pending_payment and has a usage_tracking record, whatever write of
\* activateEnterpriseAccount has failed.
C11_ActiveAccountIsActivated ==
    \A u \in UserIds :
        (/\ users[u].user_type = "enterprise"
         /\ users[u].account_status = "active"
         /\ ~ Activating(u))
            => /\ PendingSubs(u) = {}
               /\ \E i \in DOMAIN usage : usage[i].user = u

\* C12: a purchasePlan of a user who has an active subscription is answered
\* 409 and creates no subscription row; a purchasePlan of a user who has none
\* creates exactly one row, for the user and the requested plan.
C12_PurchaseConflictOrOneRow ==
    [][\A p \in SeqProcs :
          /\ \A u \in UserIds, plan \in PlanNames :
                (PurchaseCheck(p, u, plan, MaxSubs) /\ ActiveSubs(u) # {})
                    => (resp'[p].code = 409 /\ subs' = subs)
          /\ (PurchaseInsert(p) /\ ActiveSubs(loc[p].user) = {})
                => /\ Len(subs') = Len(subs) + 1
                   /\ SubSeq(subs', 1, Len(subs)) = subs
                   /\ subs'[Len(subs')].user = loc[p].user
                   /\ subs'[Len(subs')].plan = loc[p].plan]_vars

\* C13: the row that a successful purchasePlan creates has status active for
\* a plan other than enterprise and status pending_payment for the
\* enterprise plan.
C13_PurchaseStatusByPlan ==
    [][\A p \in SeqProcs :
          (PurchaseInsert(p) /\ resp'[p].code = 201)
              => subs'[Len(subs')].status =
                    IF loc[p].plan = "enterprise" THEN "pending_payment" ELSE "active"]_vars

\* C14: whatever subscriptions the user has had, a cancelSubscription of a
\* user whose active subscription is on a plan other than enterprise is
\* answered 403 and changes no subscription; when the active subscription is
\* on the enterprise plan, it gets status cancelled and a cancelled_at, and
\* the user is left with no active subscription.
C14_CancelForbiddenOrCancelled ==
    [][\A p \in SeqProcs :
          /\ \A u \in UserIds :
                (/\ CancelCheck(p, u)
                 /\ Single(ActiveSubs(u)) # NULL
                 /\ subs[Single(ActiveSubs(u))].plan # "enterprise")
                    => (resp'[p].code = 403 /\ subs' = subs)
          /\ CancelUpdate(p)
                => /\ subs'[loc[p].cur].status = "cancelled"
                   /\ subs'[loc[p].cur].cancelled_at # NULL
                   /\ \A i \in DOMAIN subs' :
                         subs'[i].user = loc[p].user => subs'[i].status # "active"]_vars

(***************************************************************************)
(* checkQuota and the quota that responses report.                         *)
(***************************************************************************)
ShortenLabels == {"sh_code", "sh_insert", "tu_read", "tu_write"}

\* C15: for an account with at most one active subscription, requests
\* running one after another: checkQuota denies with no_active_plan when the
\* account has no active subscription; allows without a count when the
\* plan's url_limit is absent; otherwise allows iff the number of resources
\* the account owns is below the limit, denies with quota_exceeded if not,
\* and its usage has used = that number, limit = the plan's limit and
\* remaining = max(0, limit - used).
C15_AccountQuotaDecision ==
    \A p \in SeqProcs :
        /\ (pc[p] \in ShortenLabels /\ IsUser(loc[p].user)) =>
              /\ ActiveSubs(loc[p].user) # {}
              /\ IF LimitOf(loc[p].user) = Unlimited
                 THEN loc[p].quota = NoQuota
                 ELSE /\ loc[p].quota.limit = LimitOf(loc[p].user)
                      /\ loc[p].quota.used < loc[p].quota.limit
                      /\ loc[p].quota.remaining = loc[p].quota.limit - loc[p].quota.used
                      /\ pc[p] = "sh_code" => loc[p].quota.used = CountByUser(loc[p].user)
        /\ (resp[p].op = "shortenUrl" /\ IsUser(resp[p].user) /\ resp[p].code = 403) =>
              IF ActiveSubs(resp[p].user) = {}
              THEN resp[p].error = "no_active_plan"
              ELSE /\ resp[p].error = "quota_exceeded"
                   /\ resp[p].quota.used = CountByUser(resp[p].user)
                   /\ resp[p].quota.limit = LimitOf(resp[p].user)
                   /\ resp[p].quota.used >= resp[p].quota.limit
                   /\ resp[p].quota.remaining = 0
        /\ (resp[p].op = "shortenUrl" /\ IsUser(resp[p].user) /\ resp[p].code = 201) =>
              \/ LimitOf(resp[p].user) = Unlimited
              \/ /\ resp[p].quota.used = CountByUser(resp[p].user) - 1
                 /\ resp[p].quota.limit = LimitOf(resp[p].user)
                 /\ resp[p].quota.remaining = resp[p].quota.limit - resp[p].quota.used

\* an account on the free plan that owns two resources has been denied
C15_Witness ==
    \E p \in SeqProcs :
        /\ resp[p].op = "shortenUrl"
        /\ IsUser(resp[p].user)
        /\ resp[p].error = "quota_exceeded"
        /\ resp[p].quota = [used |-> 2, limit |-> 2, remaining |-> 0]

\* C16: an anonymous IP that owns nothing, the free limit being 2, its
\* requests running one after another: the first creation succeeds and its
\* response reports remaining = 1, the second succeeds and reports
\* remaining = 0, the third is rejected with 403 quota_exceeded.
C16_RemainingAfterEachCreation ==
    \A p \in SeqProcs : \A ip \in Ips :
        (resp[p].user = ip /\ resp[p].op \in {"shortenUrl", "uploadFile"}) =>
            /\ hist[ip] = <<"created">> => resp[p].quota.remaining = 1
            /\ hist[ip] = <<"created", "created">> => resp[p].quota.remaining = 0
            /\ (Len(hist[ip]) = 3 /\ SubSeq(hist[ip], 1, 2) = <<"created", "created">>) =>
                  (resp[p].code = 403 /\ resp[p].error = "quota_exceeded")

(***************************************************************************)
(* Invoices.                                                               *)
(***************************************************************************)
\* C17: a generateMonthlyInvoice for a period for which the user has no
\* usage_tracking record is answered 404 and creates no invoice; one that
\* succeeds adds one invoice, of status pending and type monthly_usage.
C17_InvoiceNeedsUsage ==
    [][\A p \in SeqProcs :
          /\ (GenUsage(p) /\ UsageRow(loc[p].user, loc[p].period) = NULL)
                => (resp'[p].code = 404 /\ invoices' = invoices)
          /\ (pc[p] \in {"gi_usage", "gi_insert"} /\ resp'[p].code = 201)
                => /\ Len(invoices') = Len(invoices) + 1
                   /\ SubSeq(invoices', 1, Len(invoices)) = invoices
                   /\ invoices'[Len(invoices')].status = "pending"
                   /\ invoices'[Len(invoices')].type = "monthly_usage"
                   /\ invoices'[Len(invoices')].user = loc[p].user
          /\ (pc[p] \in {"gi_usage", "gi_insert"} /\ resp'[p].code # 201)
                => invoices' = invoices]_vars

\* an invoice has been generated, and a later request for a period without
\* usage has been answered 404
C17_Witness ==
    \E p \in SeqProcs :
        /\ resp[p].op = "generateMonthlyInvoice"
        /\ resp[p].code = 404
        /\ \E i \in DOMAIN invoices :
              invoices[i].type = "monthly_usage" /\ invoices[i].status = "pending"

\* C18: the amount and the usage_details of an invoice that exists never
\* change, whatever metering calls, invoice generations, markInvoicePaid or
\* activation requests follow.
C18_InvoiceIsFrozen ==
    [][\A i \in DOMAIN invoices :
          /\ i \in DOMAIN invoices'
          /\ invoices'[i].amount = invoices[i].amount
          /\ invoices'[i].usage_details = invoices[i].usage_details
          /\ invoices'[i].user = invoices[i].user
          /\ invoices'[i].period_start = invoices[i].period_start]_vars

\* a monthly invoice has been paid, and the usage record of its period has
\* been incremented since the invoice was made
C18_Witness ==
    \E i \in DOMAIN invoices :
        /\ invoices[i].type = "monthly_usage"
        /\ invoices[i].status = "paid"
        /\ UsageRow(invoices[i].user, invoices[i].period_start) # NULL
        /\ InvoiceOf(usage[UsageRow(invoices[i].user, invoices[i].period_start)])
              # invoices[i].usage_details

\* C19: a markInvoicePaid of the owner on a pending invoice sets its status
\* to paid and records payment_date and payment_reference; on an invoice
\* that is paid already it is answered 409 and leaves the invoice as it is;
\* on an invoice of another user it is answered 404 and leaves the invoice
\* as it is.
C19_MarkPaidOutcomes ==
    [][\A p \in SeqProcs :
          /\ \A u \in UserIds, id \in DOMAIN invoices, ref \in PayRefs :
                PayCheck(p, u, id, ref) =>
                    /\ invoices[id].user # u
                          => (resp'[p].code = 404 /\ invoices' = invoices)
                    /\ (invoices[id].user = u /\ invoices[id].status = "paid")
                          => (resp'[p].code = 409 /\ invoices' = invoices)
          /\ PayUpdate(p) =>
                /\ invoices'[loc[p].id].status = "paid"
                /\ invoices'[loc[p].id].payment_date # NULL
                /\ invoices'[loc[p].id].payment_reference = loc[p].ref]_vars

\* C20: for the usage record urls_created = 10, files_uploaded = 2,
\* storage_used_bytes = 2 x 1024^3, features_used = {chatbot: 3}, the
\* breakdown of calculateMonthlyBill is urls 1.00, files 0.10, storage 0.02,
\* chatbot 1.50 and the total is 2.62 (all in cents here).
C20_ExampleBill ==
    [][\A p \in SeqProcs :
          (/\ CalcUsage(p)
           /\ UsageRow(loc[p].user, loc[p].period) # NULL
           /\ usage[UsageRow(loc[p].user, loc[p].period)] = ExampleUsage)
          => /\ resp'[p].code = 200
             /\ resp'[p].bill.urls = 100
             /\ resp'[p].bill.files = 10
             /\ resp'[p].bill.storage = 2
             /\ resp'[p].bill.features["chatbot"] = 150
             /\ resp'[p].bill.total = 262]_vars

\* the bill of the example record has been answered
C20_Witness ==
    \E p \in SeqProcs :
        /\ usage = <<ExampleUsage>>
        /\ resp[p].op = "calculateMonthlyBill"
        /\ resp[p].code = 200
        /\ resp[p].bill.total = 262
        /\ resp[p].bill.features["chatbot"] = 150

(***************************************************************************)
(* Creation requests: codes, aliases, owners, metering.                    *)
(***************************************************************************)
\* the step is one of process p
Moved(p) == <<pc[p], loc[p], resp[p]>>' # <<pc[p], loc[p], resp[p]>>

CreateOps == {"shortenUrl", "uploadFile"}

\* C22: when the insert of a resource with a generated code hits the
\* uniqueness constraint, the handler draws a new candidate code and the
\* request does not end in an internal error.
C22_InsertCollisionRetries ==
    [][\A p \in Procs :
          (/\ Moved(p)
           /\ pc[p] \in {"sh_insert", "up_insert"}
           /\ loc[p].alias = NoAlias
           /\ CodeExists(loc[p].code))
          => (resp'[p].code # 500 /\ pc'[p] \in {"sh_code", "up_code"})]_vars

\* C24: a creation request whose custom alias is the code of an existing
\* resource is answered 409, creates no resource and leaves the existing
\* one as it is, also when the resource was inserted by a concurrent request
\* with the same alias.
C24_TakenAliasIsConflict ==
    [][\A p \in Procs :
          (/\ Moved(p)
           /\ pc[p] \in {"sh_code", "sh_insert"}
           /\ loc[p].alias # NoAlias
           /\ CodeExists(loc[p].alias))
          => (resp'[p].code = 409 /\ urls' = urls)]_vars

\* C26: every row of urls has exactly one owner: user_id set and ip_address
\* null, or ip_address set and user_id null.
C26_OneOwner ==
    \A r \in urls : (r.user_id # NoOwner) # (r.ip_address # NoOwner)

\* an account and an anonymous IP both own a resource
C26_Witness ==
    \E r1, r2 \in urls :
        /\ r1.user_id \in UserIds /\ r1.ip_address = NoOwner
        /\ r2.ip_address \in Ips /\ r2.user_id = NoOwner

\* the identities that are not metered: anonymous IPs and individual accounts
Unmetered(who) == ~ IsUser(who) \/ users[who].user_type # "enterprise"

UrlsCreatedIn(rows, u, period) ==
    LET S == {i \in DOMAIN rows : rows[i].user = u /\ rows[i].period = period}
    IN  IF S = {} THEN 0 ELSE rows[CHOOSE i \in S : TRUE].urls_created

\* C27: a creation request of an anonymous IP or of an individual account
\* changes no usage_tracking record; a request denied by the quota check
\* changes no usage_tracking record and creates no resource; a successful
\* shortenUrl of an enterprise account adds exactly 1 to urls_created of
\* the account's record of the current period.
C27_MeteringFrame ==
    [][\A p \in Procs :
          /\ (Moved(p) /\ pc[p] # "idle" /\ loc[p].op \in CreateOps
                       /\ Unmetered(loc[p].user))
                => usage' = usage
          /\ (Moved(p) /\ resp'[p].op \in CreateOps /\ resp'[p].code = 403)
                => (usage' = usage /\ urls' = urls)
          /\ (Moved(p) /\ pc[p] = "tu_write")
                => /\ resp'[p].code = 201
                   /\ UrlsCreatedIn(usage', loc[p].user, loc[p].period)
                         = UrlsCreatedIn(usage, loc[p].user, loc[p].period) + 1]_vars

(***************************************************************************)
(* Registration and the life of a subscription.                            *)
(***************************************************************************)
SubsOf(rows, u) == {i \in DOMAIN rows : rows[i].user = u}

InvoicesOf(rows, u) == {i \in DOMAIN rows : rows[i].user = u}

C29_StatusMoves ==
    [][/\ \A i \in DOMAIN subs' : subs'[i].status # "expired"
       /\ \A i \in DOMAIN subs :
             /\ i \in DOMAIN subs'
             /\ subs'[i].status # subs[i].status
                   => <<subs[i].status, subs'[i].status>>
                         \in {<<"pending_payment", "active">>, <<"active", "cancelled">>}]_vars

\* a subscription has been activated and one has been cancelled
C29_Witness ==
    /\ \E p \in Procs :
          resp[p].op = "activate" /\ resp[p].code = 200 /\ resp[p].pend # {}
    /\ \E i \in DOMAIN subs : subs[i].status = "cancelled"

\* C25: there is at most one usage_tracking record per (user, period), also
\* when metering calls and an activation of the same user and period run
\* concurrently and none of them has found a record.
C25_OneRecordPerPeriod ==
    \A i, j \in DOMAIN usage :
        (usage[i].user = usage[j].user /\ usage[i].period = usage[j].period) => i = j

\* a metering call that found no record is about to insert one, and the
\* record exists by now: an activation has inserted it meanwhile
C25_Witness ==
    \E p, q \in Procs :
        /\ pc[p] \in {"tu_write", "tf_write"}
        /\ loc[p].existing = NULL
        /\ UsageRow(loc[p].user, loc[p].period) # NULL
        /\ resp[q].op = "activate"
        /\ resp[q].code = 200
        /\ resp[q].user = loc[p].user

\* C23: the allocation of a generated code ends after a bounded number of
\* candidates, also when every candidate drawn is taken: a handler that is
\* in its generation loop leaves it.
C23_AllocationTerminates ==
    \A p \in Procs :
        (pc[p] \in {"sh_code", "up_code"}) ~> (pc[p] \notin {"sh_code", "up_code"})

(***************************************************************************)
(* Redirects.                                                              *)
(***************************************************************************)
\* the expiry_time of the resource, or the expire_time of its metadata, is
\* before instant t
ExpiredAt(r, t) ==
    \/ r.expiry_time # NULL /\ r.expiry_time < t
    \/ r.meta.exists /\ r.meta.expire_time # NULL /\ r.meta.expire_time < t

Expired(r) == ExpiredAt(r, now)

\* the password opens the resource
Opens(password, r) ==
    /\ password # NoPassword
    /\ \E salt \in Salts : r.password_hash = hashPassword(password, salt)

\* C21: a redirect request for a resource whose expiry_time, or whose
\* metadata's expire_time, is before now is answered 410 whether its
\* password is absent, wrong or correct, and does not change the click
\* count: the request that reads an expired resource changes no row then,
\* and every later step of it answers 410 and changes no row.
C21_ExpiredIsGone ==
    [][\A p \in Procs :
          /\ \A code \in RedirectCodes, password \in Passwords \cup {NoPassword} :
                (/\ RedirectRead(p, code, password)
                 /\ HasUrl(code)
                 /\ Expired(UrlOf(code)))
                => (urls' = urls /\ (resp'[p].code = 410 \/ pc'[p] = "rd_meta"))
          /\ (/\ Moved(p)
              /\ pc[p] \in {"rd_meta", "rd_click"}
              /\ ExpiredAt(loc[p].urlData, loc[p].at))
                => (urls' = urls /\ resp'[p].code = 410)]_vars

\* an expired resource has answered 410 to the request with its password
C21_Witness ==
    \E p \in Procs :
        /\ resp[p].op = "redirectUrl"
        /\ resp[p].code = 410
        /\ HasUrl(resp[p].short_code)
        /\ UrlOf(resp[p].short_code).is_password_protected
        /\ Opens(resp[p].password, UrlOf(resp[p].short_code))
        /\ UrlOf(resp[p].short_code).meta.exists
        /\ UrlOf(resp[p].short_code).expiry_time = NULL

\* C30: a redirect request for a password-protected resource that is not
\* expired, with no password or with a wrong one, is answered 401, is not
\* redirected and does not change the click count.
C30_WrongPasswordIsUnauthorized ==
    [][\A p \in Procs :
          /\ (/\ RedirectMeta(p)
              /\ HasUrl(loc[p].code)
              /\ ~ Expired(UrlOf(loc[p].code))
              /\ UrlOf(loc[p].code).is_password_protected
              /\ ~ Opens(loc[p].password, UrlOf(loc[p].code)))
                => (resp'[p].code = 401 /\ urls' = urls)
          /\ (/\ pc'[p] = "rd_click"
              /\ pc[p] # "rd_click"
              /\ UrlOf(loc'[p].code).is_password_protected)
                => Opens(loc'[p].password, UrlOf(loc'[p].code))]_vars

\* a protected resource that has been opened before has answered 401 to a
\* wrong password
C30_Witness ==
    \E p \in Procs :
        /\ resp[p].op = "redirectUrl"
        /\ resp[p].code = 401
        /\ resp[p].password = "pw2"
        /\ HasUrl(resp[p].short_code)
        /\ UrlOf(resp[p].short_code).is_password_protected
        /\ UrlOf(resp[p].short_code).clicks > 0

\* C31: after N redirect requests for one resource have been answered with
\* the redirect, in any interleaving, its click count has grown by N: each
\* redirect adds exactly 1 to the click count that the resource has then.
C31_EachRedirectCounts ==
    [][\A p \in Procs :
          RedirectClick(p)
          => /\ resp'[p].code = 302
             /\ \E r \in urls' : /\ r.short_code = loc[p].code
                                 /\ r.clicks = UrlOf(loc[p].code).clicks + 1]_vars


\* C32: an enterprise account that has not been activated (account_status
\* pending_payment) has no active subscription, whatever sequence of
\* purchasePlan, switchPlan and cancelSubscription requests it has sent.
C32_PendingAccountHasNoActivePlan ==
    \A u \in UserIds :
        /\ users[u].user_type = "enterprise"
        /\ users[u].account_status = "pending_payment"
        => ActiveSubs(u) = {}


\* C33: once an invoice is paid, its payment_reference and its payment_date
\* never change again, whatever concurrent markInvoicePaid requests for the
\* invoice are in progress.
C33_PaidInvoiceIsFrozen ==
    [][\A id \in DOMAIN invoices :
          invoices[id].status = "paid"
          => /\ invoices'[id].payment_reference = invoices[id].payment_reference
             /\ invoices'[id].payment_date = invoices[id].payment_date]_vars


\* C34: there is at most one monthly_usage invoice per user and billing
\* period: a second generateMonthlyInvoice for a period that has one adds
\* no other.
C34_OneInvoicePerPeriod ==
    \A i, j \in DOMAIN invoices :
        /\ invoices[i].type = "monthly_usage"
        /\ invoices[j].type = "monthly_usage"
        /\ invoices[i].user = invoices[j].user
        /\ invoices[i].period_start = invoices[j].period_start
        => i = j


\* the creations of an account that the usage records have counted
UrlsCounted(u) ==
    LET RECURSIVE Sum(_)
        Sum(n) == IF n = 0 THEN 0
                  ELSE Sum(n - 1) + (IF usage[n].user = u THEN usage[n].urls_created ELSE 0)
    IN  Sum(Len(usage))

\* C35: the urls_created counter of an enterprise account equals the number
\* of its creation requests that ended with a kept resource: a shortenUrl
\* that fails while saving the metadata, and deletes the resource it had
\* inserted, leaves the counter as it was before the request.
C35_CounterCountsKeptResources ==
    \A u \in EnterpriseIds : Quiet(u) => UrlsCounted(u) = CountByUser(u)

\* the uses of a feature that the usage records of an account have counted
FeatureCounted(u, f) ==
    LET RECURSIVE Sum(_)
        Sum(n) == IF n = 0 THEN 0
                  ELSE Sum(n - 1) + (IF usage[n].user = u THEN usage[n].features[f] ELSE 0)
    IN  Sum(Len(usage))

\* the metadata flag that the documentation gives for a feature
ColumnOf(f) == IF f = "chatbot" THEN "is_chatbot_enable" ELSE "is_screenshot_enable"

\* the resources of an account that were created with the flag of a feature
CreatedWith(u, f) ==
    Cardinality({r \in urls : /\ r.user_id = u
                              /\ "meta" \in DOMAIN r
                              /\ ColumnOf(f) \in r.meta.enabled})

\* C36: for an enterprise account, each successful creation with metadata
\* adds exactly 1 to features_used of a feature if the flag of the feature
\* was submitted as true, and nothing if not: each feature has been counted
\* once for each resource created with its flag.
C36_FeatureCountedIffFlagged ==
    \A u \in EnterpriseIds : \A f \in Features :
        Quiet(u) => FeatureCounted(u, f) = CreatedWith(u, f)


\* C37: the invoice that generateMonthlyInvoice stores has the total and the
\* amounts per line that calculateMonthlyBill returns for the usage record
\* the invoice is made from.
C37_InvoiceRefinesBill ==
    [][\A p \in SeqProcs :
          GenInsert(p)
          => LET id == UsageRow(loc[p].user, loc[p].period)
                 inv == invoices'[Len(invoices')]
             IN  /\ id # NULL
                 /\ inv.amount = BillOf(usage[id]).total
                 /\ inv.usage_details = BillOf(usage[id])]_vars

\* an invoice has been generated from a record with URLs, files, storage and
\* features, with the charges of the bill of that record
C37_Witness ==
    \E p \in SeqProcs, i \in DOMAIN invoices :
        /\ resp[p].op = "generateMonthlyInvoice"
        /\ resp[p].code = 201
        /\ invoices[i].type = "monthly_usage"
        /\ UsageRow(invoices[i].user, invoices[i].period_start) # NULL
        /\ LET row == usage[UsageRow(invoices[i].user, invoices[i].period_start)]
           IN  /\ row.urls_created > 0
               /\ row.storage > 0
               /\ row.features["chatbot"] > 0
               /\ invoices[i].usage_details = BillOf(row)
               /\ invoices[i].amount = BillOf(row).total
               /\ invoices[i].amount > BillOf(row).urls + BillOf(row).files


\* the last day of the calendar month before the month of t
EndOfPreviousMonth(t) ==
    IF t.month = 0
    THEN [year |-> t.year - 1, month |-> 11, date |-> 31]
    ELSE [year |-> t.year, month |-> t.month - 1,
          date |-> DaysInMonth(t.year, t.month - 1)]

\* C38: generateMonthlyInvoice without a month: whatever the current date,
\* the 29th, 30th and 31st included, the billing period starts on the first
\* day of the previous calendar month and ends on the last day of that month.
C38_PeriodIsPreviousMonth ==
    [][\A p \in SeqProcs :
          GenPeriod(p)
          => /\ loc'[p].period = [EndOfPreviousMonth(loc[p].today) EXCEPT !.date = 1]
             /\ loc'[p].period_end = EndOfPreviousMonth(loc[p].today)]_vars


\* C39: a step of a creation request of one identity changes the quota
\* evaluation of no other identity: neither the number of resources counted
\* for the other identity nor its limit, so that the resources of an account
\* are not counted for an anonymous IP and the resources of an IP or of
\* another account are not counted for an account.
C39_QuotaFrame ==
    [][\A p \in SeqProcs : \A who \in Clients :
          (Moved(p) /\ pc[p] # "idle" /\ loc[p].user # who)
          => /\ Owned(who)' = Owned(who)
             /\ LimitOf(who)' = LimitOf(who)]_vars

\* the IP has used up its quota with its own two resources while an account
\* owns a resource too
C39_Witness ==
    /\ Owned("ip1") = FreeLimit
    /\ CountByUser("u1") + CountByUser("u2") >= 1
    /\ hist["ip1"] = <<"created", "created">>
    /\ \E p \in SeqProcs : resp[p].user = "ip1" /\ resp[p].code = 201


\* what the first read of a quota check finds for an identity: no active
\* plan, an unlimited plan, or the limit that its count is compared with
PlanFound(who) ==
    IF ~ IsUser(who) THEN [kind |-> "count", limit |-> FreeLimit]
    ELSE IF Single(ActiveSubs(who)) = NULL THEN [kind |-> "no_active_plan", limit |-> NULL]
    ELSE IF LimitOf(who) = Unlimited THEN [kind |-> "unlimited", limit |-> NULL]
    ELSE [kind |-> "count", limit |-> LimitOf(who)]

\* the step of process p is the answer of a quota check that goes by the
\* decision d: denied with its reason and its usage snapshot, or allowed
\* with its usage snapshot and on to the label next
Decides(p, d, next) ==
    IF d.allowed
    THEN pc'[p] = next /\ loc'[p].quota = d.usage
    ELSE /\ pc'[p] = "idle"
         /\ resp'[p].code = 403
         /\ resp'[p].error = d.error
         /\ resp'[p].quota = d.usage

\* the step of process p is the first read of a quota check that finds found
Finds(p, found, count, next) ==
    CASE found.kind = "no_active_plan" ->
            pc'[p] = "idle" /\ resp'[p].code = 403 /\ resp'[p].error = "no_active_plan"
      [] found.kind = "unlimited" -> pc'[p] = next /\ loc'[p].quota = NoQuota
      [] OTHER -> pc'[p] = count /\ loc'[p].limit = found.limit

\* C40: for every identity and every state of the database, the quota check
\* of uploadFile and the quota check of shortenUrl give the same allowed
\* flag, the same denial reason and the same usage snapshot: each check
\* finds the same plan for the identity, and the answer of each is the
\* decision of the other for the limit and the count it has read.
C40_QuotaChecksAgree ==
    [][\A p \in SeqProcs :
          /\ \A who \in Clients :
                /\ (\E alias \in Aliases \cup {NoAlias} : ShortenCheck(p, who, alias, MaxReqs))
                      => Finds(p, PlanFound(who), "sh_count", "sh_code")
                /\ (\E size \in FileSizes : UploadCheck(p, who, size, MaxReqs))
                      => Finds(p, PlanFound(who), "up_count", "up_code")
          /\ ShortenCount(p)
                => Decides(p, UploadQuotaDecision(loc[p].limit, Owned(loc[p].user)), "sh_code")
          /\ UploadCount(p)
                => Decides(p, UrlQuotaDecision(loc[p].limit, Owned(loc[p].user)), "up_code")]_vars

\* an upload of the IP has been denied with the snapshot that the check of
\* shortenUrl gives, the IP owning a link and a file
C40_Witness ==
    \E p \in SeqProcs :
        /\ resp[p].op = "uploadFile"
        /\ resp[p].user = "ip1"
        /\ resp[p].code = 403
        /\ resp[p].error = UrlQuotaDecision(FreeLimit, Owned("ip1")).error
        /\ resp[p].quota = UrlQuotaDecision(FreeLimit, Owned("ip1")).usage
        /\ \E r1, r2 \in urls :
              /\ r1.ip_address = "ip1" /\ r1.url_type = "standard"
              /\ r2.ip_address = "ip1" /\ r2.url_type = "file"

====
